---- MODULE Spec2Model ----
(***************************************************************************)
(* Model of the ethereum-address-scraper backend.                          *)
(*                                                                         *)
(*   cache.FixedSizeCache  (Set / Get under a sync.RWMutex)   -> Spec      *)
(*   core.uniqueAddressInfos (dedup merger)                   -> SpecDedup *)
(*   core.findAddressInfos (address extractor)                -> SpecFind  *)
(*   core.fetchHTMLContent / fetchScriptContent (fetcher)     -> SpecFetch *)
(*   core.resolveURL (URL resolver)                           -> SpecURL   *)
(*   core.Scrape and what it calls (batch orchestrator)       -> SpecScrape*)
(*   the same on pages naming a script twice or none          -> SpecPages *)
(*   the same with fair scheduling of the goroutines      -> SpecPagesFair *)
(*   FixedSizeCache of any capacity from 0 on                 -> SpecZero  *)
(*   uniqueAddressInfos on entries of any strings             -> SpecStrings*)
(*   the POST /scrape handler of RunServer                    -> SpecServer*)
(***************************************************************************)
EXTENDS Integers, Sequences, FiniteSets, TLC

(***************************************************************************)
(* Bounds                                                                  *)
(***************************************************************************)
NumKeys == 3
MaxCap == 2
NumProcs == 2

\* dedup / extraction inputs
MaxLen == 2
MaxContent == 6
\* number of hex digits after 0x in the model's address pattern
\* (the pattern of findAddressInfos has 40, scaled down here)
HexLen == 1
\* the scaled size of the largest body the fetchers read
MaxBody == 3
\* the cap on a fetched body in bytes (20 MiB in the code, scaled down here)
maxContentSize == MaxBody
\* most path segments of a script reference
MaxSegs == 2
\* capacity of the target cache and of the script cache (1000 in the code,
\* scaled down here so that evictions happen)
MaxCached == 1
\* most calls of Scrape in one run of the service
MaxCalls == 2
\* requests for /scrape that the server handles at the same time
NumReqs == 2
\* most bytes in a string field of an AddressInfo handed to
\* uniqueAddressInfos
MaxStr == 2

Keys == 1..NumKeys
Values == {1, 2}
Procs == 1..NumProcs

\* the zero interface{} that a map read yields for an absent key
Nil == 0

\* a key that was never given to Set
NeverSet == 0

(***************************************************************************)
(* Go map and slice primitives used by the cache                           *)
(***************************************************************************)
EmptyMap == [x \in {} |-> Nil]

MapPut(m, k, v) == [x \in (DOMAIN m) \cup {k} |-> IF x = k THEN v ELSE m[x]]

MapDeleteBug(m, k) == m

MapDelete(m, k) == [x \in (DOMAIN m) \ {k} |-> m[x]]

\* value, exists := c.items[key]
MapGet(m, k) == IF k \in DOMAIN m THEN <<m[k], TRUE>> ELSE <<Nil, FALSE>>

ExistsBug(m, k) == FALSE

\* _, exists := c.items[key]
Exists(m, k) == k \in DOMAIN m

FullBug(n, cap) == n > cap

\* len(c.keys) >= c.maxCacheSize
Full(n, cap) == n >= cap

RemoveAtBug(s, idx) == SubSeq(s, 1, Len(s) - 1)

\* c.keys[evictIndex] = c.keys[len(c.keys)-1]; c.keys = c.keys[:len(c.keys)-1]
RemoveAt(s, idx) ==
  SubSeq([j \in 1..Len(s) |-> IF j = idx THEN s[Len(s)] ELSE s[j]], 1, Len(s) - 1)

StoreBug(m, k, v) == IF k \in DOMAIN m THEN m ELSE MapPut(m, k, v)

\* c.items[key] = value
Store(m, k, v) == MapPut(m, k, v)

LockGuardBug(mu) == TRUE

\* sync.RWMutex.Lock proceeds only with no writer and no reader inside
LockGuard(mu) == ~mu.writer /\ mu.readers = 0

\* sync.RWMutex.RLock proceeds only with no writer inside
RLockGuard(mu) == ~mu.writer

(***************************************************************************)
(* State                                                                   *)
(***************************************************************************)
VARIABLES
  maxCacheSize,  \* FixedSizeCache.maxCacheSize
  items,         \* FixedSizeCache.items
  keys,          \* FixedSizeCache.keys
  mutex,         \* FixedSizeCache.mutex: [writer: BOOLEAN, readers: Nat]
  pc,            \* per goroutine: position inside Set / Get
  key,           \* per goroutine: the key argument of the running call
  value,         \* per goroutine: the value argument of the running Set
  ret,           \* per goroutine: what Get is about to return
  snap,          \* per goroutine: items/keys as they were when the lock was taken
  lastSet,       \* per key: value of the last Set that stored it, or NeverSet
  evicted,       \* keys removed by an eviction and not stored again since
  addressInfos,  \* uniqueAddressInfos: the argument
  unique,        \* uniqueAddressInfos: the returned slice
  dpc,           \* uniqueAddressInfos: "idle" | "call" | "done"
  content,       \* findAddressInfos: the content argument
  fargs,         \* findAddressInfos: [src, contentType, target]
  found,         \* findAddressInfos: the returned slice
  fpc,           \* findAddressInfos: "idle" | "call" | "done"
  resp,          \* fetch*Content: what the server and the transport do
  fetched,       \* fetch*Content: the returned (content, err)
  hpc,           \* fetch*Content: "idle" | "html" | "script" | "done"
  rbase,         \* resolveURL: the base argument
  rref,          \* resolveURL: the ref argument
  resolved,      \* resolveURL: the returned (url, err)
  upc,           \* resolveURL: "idle" | "call" | "done"
  targetCache,   \* core.targetCache: [items, keys]
  scriptCache,   \* core.scriptCache: [items, keys]
  ncalls,        \* calls of Scrape started so far
  spc,           \* Scrape: "idle" | "target" | "range" | "returned"
  targets,       \* Scrape: the targets argument
  tix,           \* Scrape: index of the target the loop is at
  allAddressInfos,  \* Scrape: the findings appended so far
  result,        \* Scrape: the returned (list, err)
  pageInfos,     \* scrapeTarget: addressInfos, the findings of the page
  tasks,         \* processScripts: per script, the goroutine running processScript
  wg,            \* processScripts: the WaitGroup counter
  scriptInfosChan,  \* processScripts: [buf, closed]
  allScriptInfos,   \* processScripts: the findings received so far
  requests,      \* HTTP requests issued during this call: set of [url, kind, target, at]
  outcomes,      \* per target processed in this call: how scrapeTarget ended
  before,        \* both caches as they were when the current target was begun
  lastOK,        \* per target: what its last scrapeTarget that stored it returned
  handlers       \* POST /scrape: per request, the handler and its goroutine

cacheVars == <<maxCacheSize, items, keys, mutex>>
procVars == <<pc, key, value, ret, snap>>
histVars == <<lastSet, evicted>>
dedupVars == <<addressInfos, unique, dpc>>
findVars == <<content, fargs, found, fpc>>
fetchVars == <<resp, fetched, hpc>>
urlVars == <<rbase, rref, resolved, upc>>
serverVars == <<handlers>>
scrapeVars == <<targetCache, scriptCache, ncalls, spc, targets, tix, allAddressInfos,
                result, pageInfos, tasks, wg, scriptInfosChan, allScriptInfos,
                requests, outcomes, before, lastOK>>
\* the variables of the specifications below the first three
moreVars == <<fetchVars, urlVars, scrapeVars, serverVars>>
\* the variables of the specifications of single functions
unitVars == <<cacheVars, procVars, histVars, dedupVars, findVars, fetchVars, urlVars,
             serverVars>>
vars == <<maxCacheSize, items, keys, mutex, pc, key, value, ret, snap, lastSet, evicted,
          addressInfos, unique, dpc, content, fargs, found, fpc,
          resp, fetched, hpc, rbase, rref, resolved, upc,
          targetCache, scriptCache, ncalls, spc, targets, tix, allAddressInfos,
          result, pageInfos, tasks, wg, scriptInfosChan, allScriptInfos,
          requests, outcomes, before, lastOK, handlers>>

NoSnap == [items |-> EmptyMap, keys |-> <<>>]
NoRet == <<Nil, FALSE>>

\* NewFixedSizeCache(maxCacheSize)
NewFixedSizeCache ==
  /\ items = EmptyMap
  /\ keys = <<>>
  /\ mutex = [writer |-> FALSE, readers |-> 0]

\* nothing is calling uniqueAddressInfos
DedupIdle ==
  /\ addressInfos = <<>>
  /\ unique = <<>>
  /\ dpc = "idle"

\* nothing is calling findAddressInfos
FindIdle ==
  /\ content = <<>>
  /\ fargs = <<>>
  /\ found = <<>>
  /\ fpc = "idle"

\* nothing is calling fetchHTMLContent or fetchScriptContent
FetchIdle ==
  /\ resp = <<>>
  /\ fetched = <<>>
  /\ hpc = "idle"

\* nothing is calling resolveURL
ResolveIdle ==
  /\ rbase = <<>>
  /\ rref = <<>>
  /\ resolved = <<>>
  /\ upc = "idle"

\* a cache of the core package right after NewFixedSizeCache
NewCache == [items |-> EmptyMap, keys |-> <<>>]
OpenChan == [buf |-> <<>>, closed |-> FALSE]
\* a request that has not reached the handler: no goroutine, no response
NoRequest == [pc |-> "idle", targets |-> <<>>, worker |-> "none", results |-> <<>>,
              status |-> "none"]

\* Scrape has not been called
ScrapeIdle ==
  /\ targetCache = NewCache
  /\ scriptCache = NewCache
  /\ ncalls = 0
  /\ spc = "idle"
  /\ targets = <<>>
  /\ tix = 0
  /\ allAddressInfos = <<>>
  /\ result = <<>>
  /\ pageInfos = <<>>
  /\ tasks = <<>>
  /\ wg = 0
  /\ scriptInfosChan = OpenChan
  /\ allScriptInfos = <<>>
  /\ requests = {}
  /\ outcomes = <<>>
  /\ before = <<>>
  /\ lastOK = EmptyMap

\* no request for /scrape has arrived
ServerIdle == handlers = [r \in 1..NumReqs |-> NoRequest]

MoreIdle == FetchIdle /\ ResolveIdle /\ ScrapeIdle /\ ServerIdle

CacheInit(caps) ==
  /\ maxCacheSize \in caps
  /\ NewFixedSizeCache
  /\ pc = [p \in Procs |-> "idle"]
  /\ key = [p \in Procs |-> 0]
  /\ value = [p \in Procs |-> Nil]
  /\ ret = [p \in Procs |-> NoRet]
  /\ snap = [p \in Procs |-> NoSnap]
  /\ lastSet = [k \in Keys |-> NeverSet]
  /\ evicted = {}

\* a cache of capacity 1..MaxCap, as the scraper (1000) and the tests (3, 5)
\* construct it: with a positive capacity a full cache has a key to evict
Init == CacheInit(1..MaxCap) /\ DedupIdle /\ FindIdle /\ MoreIdle

(***************************************************************************)
(* FixedSizeCache.Set                                                      *)
(***************************************************************************)
\* c.mutex.Lock()
SetLock(p) ==
  /\ pc[p] = "idle"
  /\ LockGuard(mutex)
  /\ \E k \in Keys, v \in Values :
       /\ key' = [key EXCEPT ![p] = k]
       /\ value' = [value EXCEPT ![p] = v]
  /\ mutex' = [mutex EXCEPT !.writer = TRUE]
  /\ snap' = [snap EXCEPT ![p] = [items |-> items, keys |-> keys]]
  /\ pc' = [pc EXCEPT ![p] = "SetCheck"]
  /\ UNCHANGED <<maxCacheSize, items, keys, ret, histVars, dedupVars, findVars, moreVars>>

\* if _, exists := c.items[key]; !exists { if len(c.keys) >= c.maxCacheSize {
SetCheck(p) ==
  /\ pc[p] = "SetCheck"
  /\ pc' = [pc EXCEPT ![p] =
              IF Exists(items, key[p]) THEN "SetStore"
              ELSE IF Full(Len(keys), maxCacheSize) THEN "SetEvict"
              ELSE "SetAppend"]
  /\ UNCHANGED <<cacheVars, key, value, ret, snap, histVars, dedupVars, findVars, moreVars>>

\* evictIndex := rand.Intn(len(c.keys)); delete; swap with last; truncate
SetEvict(p) ==
  /\ pc[p] = "SetEvict"
  /\ \E evictIndex \in 1..Len(keys) :
       /\ items' = MapDelete(items, keys[evictIndex])
       /\ keys' = RemoveAt(keys, evictIndex)
       /\ evicted' = evicted \cup {keys[evictIndex]}
  /\ pc' = [pc EXCEPT ![p] = "SetAppend"]
  /\ UNCHANGED <<maxCacheSize, mutex, key, value, ret, snap, lastSet, dedupVars, findVars, moreVars>>

\* c.keys = append(c.keys, key)
SetAppend(p) ==
  /\ pc[p] = "SetAppend"
  /\ keys' = Append(keys, key[p])
  /\ pc' = [pc EXCEPT ![p] = "SetStore"]
  /\ UNCHANGED <<maxCacheSize, items, mutex, key, value, ret, snap, histVars, dedupVars, findVars, moreVars>>

\* c.items[key] = value
SetStore(p) ==
  /\ pc[p] = "SetStore"
  /\ items' = Store(items, key[p], value[p])
  /\ lastSet' = [lastSet EXCEPT ![key[p]] = value[p]]
  /\ evicted' = evicted \ {key[p]}
  /\ pc' = [pc EXCEPT ![p] = "SetUnlock"]
  /\ UNCHANGED <<maxCacheSize, keys, mutex, key, value, ret, snap, dedupVars, findVars, moreVars>>

\* defer c.mutex.Unlock()
SetUnlock(p) ==
  /\ pc[p] = "SetUnlock"
  /\ mutex' = [mutex EXCEPT !.writer = FALSE]
  /\ pc' = [pc EXCEPT ![p] = "idle"]
  /\ key' = [key EXCEPT ![p] = 0]
  /\ value' = [value EXCEPT ![p] = Nil]
  /\ snap' = [snap EXCEPT ![p] = NoSnap]
  /\ UNCHANGED <<maxCacheSize, items, keys, ret, histVars, dedupVars, findVars, moreVars>>

(***************************************************************************)
(* FixedSizeCache.Get                                                      *)
(***************************************************************************)
\* c.mutex.RLock()
GetRLock(p) ==
  /\ pc[p] = "idle"
  /\ RLockGuard(mutex)
  /\ \E k \in Keys : key' = [key EXCEPT ![p] = k]
  /\ mutex' = [mutex EXCEPT !.readers = @ + 1]
  /\ snap' = [snap EXCEPT ![p] = [items |-> items, keys |-> keys]]
  /\ pc' = [pc EXCEPT ![p] = "GetRead"]
  /\ UNCHANGED <<maxCacheSize, items, keys, value, ret, histVars, dedupVars, findVars, moreVars>>

\* value, exists := c.items[key]
GetRead(p) ==
  /\ pc[p] = "GetRead"
  /\ ret' = [ret EXCEPT ![p] = MapGet(items, key[p])]
  /\ pc' = [pc EXCEPT ![p] = "GetUnlock"]
  /\ UNCHANGED <<cacheVars, key, value, snap, histVars, dedupVars, findVars, moreVars>>

\* defer c.mutex.RUnlock(); return value, exists
GetRUnlock(p) ==
  /\ pc[p] = "GetUnlock"
  /\ mutex' = [mutex EXCEPT !.readers = @ - 1]
  /\ pc' = [pc EXCEPT ![p] = "idle"]
  /\ key' = [key EXCEPT ![p] = 0]
  /\ ret' = [ret EXCEPT ![p] = NoRet]
  /\ snap' = [snap EXCEPT ![p] = NoSnap]
  /\ UNCHANGED <<maxCacheSize, items, keys, value, histVars, dedupVars, findVars, moreVars>>

Next ==
  \/ \E p \in Procs : SetLock(p)
  \/ \E p \in Procs : SetCheck(p)
  \/ \E p \in Procs : SetEvict(p)
  \/ \E p \in Procs : SetAppend(p)
  \/ \E p \in Procs : SetStore(p)
  \/ \E p \in Procs : SetUnlock(p)
  \/ \E p \in Procs : GetRLock(p)
  \/ \E p \in Procs : GetRead(p)
  \/ \E p \in Procs : GetRUnlock(p)

Spec == Init /\ [][Next]_vars

\* NewFixedSizeCache with any capacity from 0 on
InitZero == CacheInit(0..MaxCap) /\ DedupIdle /\ FindIdle /\ MoreIdle

\* evictIndex := rand.Intn(len(c.keys)) with no key in the slice: rand.Intn
\* panics for an argument that is not positive; the deferred Unlock runs
\* while the panic unwinds Set
SetPanic(p) ==
  /\ pc[p] = "SetEvict"
  /\ Len(keys) = 0
  /\ mutex' = [mutex EXCEPT !.writer = FALSE]
  /\ pc' = [pc EXCEPT ![p] = "panicked"]
  /\ UNCHANGED <<maxCacheSize, items, keys, key, value, ret, snap, histVars, dedupVars,
                 findVars, moreVars>>

NextZero ==
  \/ Next
  \/ \E p \in Procs : SetPanic(p)

SpecZero == InitZero /\ [][NextZero]_vars

(***************************************************************************)
(* Cache properties                                                        *)
(***************************************************************************)
Count(m) == Cardinality(DOMAIN m)

\* goroutine p has run the whole body of Set and still holds the lock
SetDone(p) == pc[p] = "SetUnlock"

\* the Set that p is finishing found its key absent and the cache full
SetWasNewAtCapacity(p) ==
  /\ SetDone(p)
  /\ key[p] \notin DOMAIN snap[p].items
  /\ Count(snap[p].items) = maxCacheSize

\* the Set that p is finishing found its key stored
SetWasOverwrite(p) ==
  /\ SetDone(p)
  /\ key[p] \in DOMAIN snap[p].items

\* C1: the number of stored entries never exceeds the capacity the cache
\* was constructed with, in every state that any sequence of Set calls with
\* any eviction choices reaches.
C1_CapacityBound == Count(items) <= maxCacheSize

C1_Witness ==
  \E p \in Procs : SetWasNewAtCapacity(p) /\ Count(items) = maxCacheSize

\* C2: a Set of a key that is not stored, on a cache holding capacity-many
\* entries, removes exactly one previously stored entry, stores the new key
\* with its value and leaves every other entry as it was.
C2_EvictExactlyOne ==
  \A p \in Procs : SetWasNewAtCapacity(p) =>
     \E e \in DOMAIN snap[p].items :
        /\ DOMAIN items = ((DOMAIN snap[p].items) \ {e}) \cup {key[p]}
        /\ items[key[p]] = value[p]
        /\ \A o \in (DOMAIN snap[p].items) \ {e} : items[o] = snap[p].items[o]

C2_Witness ==
  \E p \in Procs :
     /\ SetWasNewAtCapacity(p)
     /\ maxCacheSize = MaxCap
     /\ \E o \in DOMAIN snap[p].items : o \in DOMAIN items

\* C3: a Set of a key that is already stored evicts nothing and keeps the
\* number of stored entries, also on a full cache; afterwards a lookup of the
\* key gives the new value and every other key has the value it had.
C3_OverwriteNoEviction ==
  \A p \in Procs : SetWasOverwrite(p) =>
     /\ DOMAIN items = DOMAIN snap[p].items
     /\ keys = snap[p].keys
     /\ MapGet(items, key[p]) = <<value[p], TRUE>>
     /\ \A o \in (DOMAIN items) \ {key[p]} : items[o] = snap[p].items[o]

C3_Witness ==
  \E p \in Procs :
     /\ SetWasOverwrite(p)
     /\ Count(snap[p].items) = maxCacheSize
     /\ snap[p].items[key[p]] # value[p]

\* what Get(k) has to return in the current state
GetExpected(k) ==
  IF k \in DOMAIN items THEN <<lastSet[k], TRUE>> ELSE <<Nil, FALSE>>

GetReturns ==
  \A p \in Procs : pc[p] = "GetUnlock" =>
     /\ ret[p] = GetExpected(key[p])
     /\ ret[p][2] = (key[p] \in DOMAIN items)
     /\ lastSet[key[p]] = NeverSet => ret[p][2] = FALSE
     /\ key[p] \in evicted => ret[p][2] = FALSE

GetStep == \E p \in Procs : pc[p] \in {"GetRead", "GetUnlock"} /\ pc'[p] # pc[p]

\* C4: Get(k) returns (v, true) exactly when k is stored, v being the value
\* of the most recent Set of k; it returns found = false for a key never set
\* or evicted; and no step of Get changes the cache contents.
C4_GetContract ==
  /\ []GetReturns
  /\ [][GetStep => UNCHANGED <<items, keys>>]_vars

C4_Witness ==
  \E p, q \in Procs :
     /\ pc[p] = "GetUnlock" /\ ret[p][2] /\ ret[p][1] = 2
     /\ pc[q] = "GetUnlock" /\ key[q] \in evicted

\* the outcomes of Set(k, v) run alone on cache contents c
SetOutcomes(c, k, v) ==
  IF k \in DOMAIN c.items
    THEN {[items |-> MapPut(c.items, k, v), keys |-> c.keys]}
    ELSE IF Len(c.keys) >= maxCacheSize
      THEN {[items |-> MapPut(MapDelete(c.items, c.keys[e]), k, v),
             keys |-> Append(SubSeq([j \in 1..Len(c.keys) |->
                               IF j = e THEN c.keys[Len(c.keys)] ELSE c.keys[j]],
                             1, Len(c.keys) - 1), k)] : e \in 1..Len(c.keys)}
      ELSE {[items |-> MapPut(c.items, k, v), keys |-> Append(c.keys, k)]}

InSet == {p \in Procs : pc[p] \in {"SetCheck", "SetEvict", "SetAppend", "SetStore", "SetUnlock"}}
InGet == {p \in Procs : pc[p] \in {"GetRead", "GetUnlock"}}

\* C5: a Set runs alone inside its critical section, Gets overlap only with
\* Gets, and each call acts as if run alone on the contents it found when it
\* took the lock, so the contents are always those of some sequential order
\* of the calls (at most capacity-many entries, keys listing the stored keys).
C5_ThreadSafe ==
  /\ Cardinality(InSet) <= 1
  /\ InSet # {} => InGet = {}
  /\ \A p \in InGet : [items |-> items, keys |-> keys] = snap[p]
  /\ \A p \in Procs : SetDone(p) =>
        [items |-> items, keys |-> keys] \in SetOutcomes(snap[p], key[p], value[p])
  /\ \A p \in Procs : pc[p] = "GetUnlock" => ret[p] = MapGet(snap[p].items, key[p])
  /\ InSet = {} =>
        /\ Count(items) <= maxCacheSize
        /\ Len(keys) = Count(items)
        /\ {keys[j] : j \in 1..Len(keys)} = DOMAIN items

C5_Witness ==
  /\ Cardinality(InGet) = NumProcs
  /\ Count(items) = maxCacheSize
  /\ evicted # {}
(***************************************************************************)
(* AddressInfo values                                                      *)
(* Strings that the code concatenates are sequences of characters.         *)
(***************************************************************************)
Range(f) == {f[j] : j \in DOMAIN f}

TypeHTML == <<"h", "t", "m", "l">>
TypeScript == <<"s", "c", "r", "i", "p", "t">>
Types == {TypeHTML, TypeScript}

\* an address as the pattern matches it: 0x and HexLen times the hex digit d
Address(d) == <<"0", "x">> \o [j \in 1..HexLen |-> d]
Addresses == {Address("a"), Address("A")}

\* URLs: two target pages and a script of the first
PageURL == <<"u">>
OtherPageURL == <<"u", "/">>
ScriptURL == <<"u", "/", "s">>
Targets == {PageURL, OtherPageURL}
Srcs == {PageURL, ScriptURL}

\* the targets lists of the entries: one target, or two (also twice the same)
TargetLists == {<<t>> : t \in Targets} \cup {<<t, u>> : t \in Targets, u \in Targets}

\* type AddressInfo struct, with the type that goes with the source document
AddressInfo ==
  {info \in [Address : Addresses, Src : Srcs, Type : Types, Targets : TargetLists] :
     info.Type = TypeHTML <=> info.Src = PageURL}

AddressInfoLists == UNION {[1..n -> AddressInfo] : n \in 0..MaxLen}

(***************************************************************************)
(* core.uniqueAddressInfos                                                 *)
(***************************************************************************)
\* key := info.Address + info.Src + info.Type
KeyOf(info) == info.Address \o info.Src \o info.Type

RECURSIVE AppendNew(_, _, _)
\* targetMap of existing.Targets; append each t of info.Targets not in it
AppendNew(existingTargets, infoTargets, j) ==
  IF j > Len(infoTargets) THEN existingTargets
  ELSE AppendNew(IF infoTargets[j] \in Range(existingTargets)
                   THEN existingTargets
                   ELSE Append(existingTargets, infoTargets[j]),
                 infoTargets, j + 1)

MergeTargetsBug(existing, info) == existing

\* the value written back by seen[key] = existing
MergeTargets(existing, info) ==
  [existing EXCEPT !.Targets = AppendNew(existing.Targets, info.Targets, 1)]

FirstSeenBug(info) == [info EXCEPT !.Targets = SubSeq(info.Targets, 1, 1)]

\* the value written by seen[key] = info
FirstSeen(info) == info

\* one iteration of: for _, info := range addressInfos
SeenStep(seen, info) ==
  IF KeyOf(info) \in DOMAIN seen
    THEN MapPut(seen, KeyOf(info), MergeTargets(seen[KeyOf(info)], info))
    ELSE MapPut(seen, KeyOf(info), FirstSeen(info))

RECURSIVE SeenLoop(_, _, _)
SeenLoop(seen, infos, i) ==
  IF i > Len(infos) THEN seen ELSE SeenLoop(SeenStep(seen, infos[i]), infos, i + 1)

\* the map seen after the first loop
SeenOf(infos) == SeenLoop(EmptyMap, infos, 1)

\* the orders in which `for _, info := range seen` can visit the map:
\* Go leaves the iteration order of a map unspecified
RECURSIVE Orders(_)
Orders(S) ==
  IF S = {} THEN {<<>>}
  ELSE UNION {{<<x>> \o o : o \in Orders(S \ {x})} : x \in S}

MapOrders(m) == Orders(DOMAIN m)

\* the slice returned when the map is visited in the given order
uniqueAddressInfos(infos, order) ==
  LET seen == SeenOf(infos) IN [j \in 1..Len(order) |-> seen[order[j]]]

InitDedup ==
  /\ CacheInit({1}) /\ FindIdle /\ MoreIdle
  /\ addressInfos \in AddressInfoLists
  /\ unique = <<>>
  /\ dpc = "call"

UniqueCall ==
  /\ dpc = "call"
  /\ \E order \in MapOrders(SeenOf(addressInfos)) :
       unique' = uniqueAddressInfos(addressInfos, order)
  /\ dpc' = "done"
  /\ UNCHANGED <<cacheVars, procVars, histVars, addressInfos, findVars, moreVars>>

NextDedup == UniqueCall

SpecDedup == InitDedup /\ [][NextDedup]_vars

\* Go strings of up to MaxStr bytes, as the fields of an AddressInfo whose
\* contents the function does not look at
Strings == UNION {[1..n -> {"x"}] : n \in 0..MaxStr}

\* type AddressInfo struct with any strings in its three string fields
AnyAddressInfo(target) ==
  [Address : Strings, Src : Strings, Type : Strings, Targets : {<<target>>}]

\* uniqueAddressInfos is called with two entries of any strings, found from
\* two targets
InitStrings ==
  /\ CacheInit({1}) /\ FindIdle /\ MoreIdle
  /\ \E a \in AnyAddressInfo(PageURL), b \in AnyAddressInfo(OtherPageURL) :
       addressInfos = <<a, b>>
  /\ unique = <<>>
  /\ dpc = "call"

SpecStrings == InitStrings /\ [][NextDedup]_vars

(***************************************************************************)
(* Dedup properties                                                        *)
(***************************************************************************)
TripleOf(info) == <<info.Address, info.Src, info.Type>>

WithTriple(infos, t) == {j \in 1..Len(infos) : TripleOf(infos[j]) = t}

\* C6: the output holds no two entries with the same (address, src, type),
\* it holds an entry for exactly the triples of the input, and the targets of
\* each output entry, as a set, are the union of the targets of the input
\* entries with that triple.
C6_UnionInvariant ==
  dpc = "done" =>
    /\ \A i, j \in 1..Len(unique) : TripleOf(unique[i]) = TripleOf(unique[j]) => i = j
    /\ {TripleOf(unique[i]) : i \in 1..Len(unique)}
         = {TripleOf(addressInfos[i]) : i \in 1..Len(addressInfos)}
    /\ \A i \in 1..Len(unique) :
         Range(unique[i].Targets)
           = UNION {Range(addressInfos[j].Targets) :
                      j \in WithTriple(addressInfos, TripleOf(unique[i]))}

C6_Witness ==
  /\ dpc = "done"
  /\ Len(unique) = 1
  /\ \E i, j \in 1..Len(addressInfos) :
       /\ i # j
       /\ TripleOf(addressInfos[i]) = TripleOf(addressInfos[j])
       /\ Range(addressInfos[i].Targets) # Range(addressInfos[j].Targets)

\* C7: deduplicating the output again gives the same set of entries (same
\* triples with the same targets lists), whatever order the map is visited in.
C7_Idempotent ==
  dpc = "done" =>
    \A order \in MapOrders(SeenOf(unique)) :
       Range(uniqueAddressInfos(unique, order)) = Range(unique)

C7_Witness ==
  /\ dpc = "done"
  /\ Len(unique) < Len(addressInfos)
  /\ \E i \in 1..Len(unique) : Len(unique[i].Targets) > 2

RECURSIVE FirstSeenOrder(_, _, _)
\* the distinct elements of s from position j on, in order of first
\* appearance, appended to acc
FirstSeenOrder(acc, s, j) ==
  IF j > Len(s) THEN acc
  ELSE FirstSeenOrder(IF s[j] \in Range(acc) THEN acc ELSE Append(acc, s[j]), s, j + 1)

\* C8: the merged entries come back in the order in which each
\* (address, src, type) first appears in the input list.
C8_FirstAppearanceOrder ==
  dpc = "done" =>
    [j \in 1..Len(unique) |-> TripleOf(unique[j])]
      = FirstSeenOrder(<<>>, [j \in 1..Len(addressInfos) |-> TripleOf(addressInfos[j])], 1)

RECURSIVE Concat(_, _)
\* the targets lists of the entries of infos at the (ascending) positions of
\* idx, one after the other
Concat(infos, idx) ==
  IF idx = {} THEN <<>>
  ELSE LET m == CHOOSE x \in idx : \A y \in idx : x <= y
       IN infos[m].Targets \o Concat(infos, idx \ {m})

\* C9: in every returned entry the targets list holds no URL twice and lists
\* the targets of the input entries with that triple in first-seen order.
C9_TargetsUniqueOrdered ==
  dpc = "done" =>
    \A i \in 1..Len(unique) :
       /\ Cardinality(Range(unique[i].Targets)) = Len(unique[i].Targets)
       /\ unique[i].Targets
            = FirstSeenOrder(<<>>,
                Concat(addressInfos, WithTriple(addressInfos, TripleOf(unique[i]))), 1)
(***************************************************************************)
(* core.findAddressInfos                                                   *)
(***************************************************************************)
\* the characters the contents are drawn from: the prefix characters, a
\* lower-case and an upper-case hex digit
Chars == {"0", "x", "a", "A"}

Contents == UNION {[1..n -> Chars] : n \in 0..MaxContent}

IsHexBug(c) == c \in {"0", "1", "2", "3", "4", "5", "6", "7", "8", "9",
                      "a", "b", "c", "d", "e", "f"}

\* the character class [0-9a-fA-F]
IsHex(c) == c \in {"0", "1", "2", "3", "4", "5", "6", "7", "8", "9",
                   "a", "b", "c", "d", "e", "f", "A", "B", "C", "D", "E", "F"}

\* length of a match of 0x[0-9a-fA-F]{HexLen}
TokenLen == 2 + HexLen

\* the pattern matches at position i of content
MatchAt(c, i) ==
  /\ i + TokenLen - 1 <= Len(c)
  /\ c[i] = "0"
  /\ c[i + 1] = "x"
  /\ \A j \in 2..(TokenLen - 1) : IsHex(c[i + j])

AfterMatchBug(i) == i + 1

\* FindAllString resumes the search behind the match it has just found
AfterMatch(i) == i + TokenLen

RECURSIVE FindAllString(_, _)
\* re.FindAllString(content, -1), searching from position i
FindAllString(c, i) ==
  IF i > Len(c) THEN <<>>
  ELSE IF MatchAt(c, i)
    THEN <<SubSeq(c, i, i + TokenLen - 1)>> \o FindAllString(c, AfterMatch(i))
    ELSE FindAllString(c, i + 1)

findAddressInfos(c, src, contentType, target) ==
  LET matches == FindAllString(c, 1)
  IN [j \in 1..Len(matches) |->
        [Address |-> matches[j], Src |-> src, Type |-> contentType,
         Targets |-> <<target>>]]

\* the two calls of the scraper: the page of a target, and a script of it
FindArgs ==
  {[src |-> t, contentType |-> TypeHTML, target |-> t] : t \in Targets}
    \cup {[src |-> ScriptURL, contentType |-> TypeScript, target |-> t] : t \in Targets}

InitFind ==
  /\ CacheInit({1}) /\ DedupIdle /\ MoreIdle
  /\ content \in Contents
  /\ fargs \in FindArgs
  /\ found = <<>>
  /\ fpc = "call"

FindCall ==
  /\ fpc = "call"
  /\ found' = findAddressInfos(content, fargs.src, fargs.contentType, fargs.target)
  /\ fpc' = "done"
  /\ UNCHANGED <<cacheVars, procVars, histVars, dedupVars, content, fargs, moreVars>>

NextFind == FindCall

SpecFind == InitFind /\ [][NextFind]_vars

(***************************************************************************)
(* Extraction properties                                                   *)
(***************************************************************************)
HexDigits == {"0", "1", "2", "3", "4", "5", "6", "7", "8", "9",
              "a", "b", "c", "d", "e", "f", "A", "B", "C", "D", "E", "F"}

\* s is 0x followed by HexLen hexadecimal digits
IsToken(s) ==
  /\ Len(s) = 2 + HexLen
  /\ s[1] = "0" /\ s[2] = "x"
  /\ \A j \in 3..Len(s) : s[j] \in HexDigits

\* the positions of content at which a token starts
Occurrences(c) ==
  {i \in 1..Len(c) : i + 1 + HexLen <= Len(c) /\ IsToken(SubSeq(c, i, i + 1 + HexLen))}

\* P is the left-to-right non-overlapping selection among the occurrences:
\* an occurrence is taken unless it starts inside an earlier taken one
LeftToRight(P, c) ==
  \A i \in Occurrences(c) :
     i \in P <=> \A j \in P : ~(j < i /\ i < j + 2 + HexLen)

RECURSIVE Ascending(_)
\* the elements of a set of numbers in ascending order
Ascending(S) ==
  IF S = {} THEN <<>>
  ELSE LET m == CHOOSE x \in S : \A y \in S : x <= y
       IN <<m>> \o Ascending(S \ {m})

\* C10: the result lists, left to right, one AddressInfo per non-overlapping
\* occurrence of 0x and HexLen hex digits, each with the given src and kind
\* and targets = [target]; equal matches are all kept, and a content without
\* a token gives the empty list.
C10_FindAddressInfos ==
  fpc = "done" =>
    /\ \E P \in SUBSET Occurrences(content) :
         /\ LeftToRight(P, content)
         /\ found = [k \in 1..Cardinality(P) |->
                       [Address |-> SubSeq(content, Ascending(P)[k],
                                           Ascending(P)[k] + 1 + HexLen),
                        Src |-> fargs.src, Type |-> fargs.contentType,
                        Targets |-> <<fargs.target>>]]
    /\ Occurrences(content) = {} => found = <<>>

C10_Witness ==
  /\ fpc = "done"
  /\ Len(found) = 2
  /\ found[1] = found[2]
  /\ fargs.src # fargs.target

C10_WitnessOverlap ==
  /\ fpc = "done"
  /\ Cardinality(Occurrences(content)) > Len(found)
  /\ \E j \in 1..Len(found) : \E c \in Range(found[j].Address) : c \notin {"0", "x", "a"}

\* the letter case a normalised address would use
LowerChar(c) ==
  CASE c = "A" -> "a" [] c = "B" -> "b" [] c = "C" -> "c"
    [] c = "D" -> "d" [] c = "E" -> "e" [] c = "F" -> "f"
    [] OTHER -> c

ToLower(s) == [j \in 1..Len(s) |-> LowerChar(s[j])]

\* C11: the address of every produced entry is in normalised letter case:
\* two matches that differ only in the case of their hex digits carry the same
\* address string, and so dedup returns one entry for them.
C11_NormalizedCase ==
  fpc = "done" =>
    /\ \A i, j \in 1..Len(found) :
         ToLower(found[i].Address) = ToLower(found[j].Address)
           => found[i].Address = found[j].Address
    /\ \A order \in MapOrders(SeenOf(found)) :
         \A i, j \in 1..Len(order) :
            ToLower(uniqueAddressInfos(found, order)[i].Address)
              = ToLower(uniqueAddressInfos(found, order)[j].Address) => i = j

(***************************************************************************)
(* core.fetchScriptContent / core.fetchHTMLContent                         *)
(***************************************************************************)
\* bodies a server can send, up to one byte beyond the cap
Bodies == UNION {[1..n -> {"0", "x"}] : n \in 0..(maxContentSize + 1)}

\* what happens to one GET: client.Do fails (doErr), or the server sends body
\* and the transport breaks when byte readErrAt is read (0: it never breaks)
Responses ==
  {r \in [doErr : BOOLEAN, body : Bodies, readErrAt : 0..(maxContentSize + 1)] :
     r.readErrAt <= Len(r.body)}

FetchErr == [content |-> <<>>, err |-> TRUE]

TooLargeBug(n, cap) == n > cap

\* len(body) >= maxContentSize
TooLarge(n, cap) == n >= cap

\* io.ReadAll(io.LimitReader(resp.Body, maxContentSize)): the bytes read, or
\* an error when the transport breaks before the limit or the end is reached
ReadAllLimited(r, cap) ==
  IF r.readErrAt # 0 /\ r.readErrAt <= cap
    THEN [body |-> <<>>, err |-> TRUE]
    ELSE [body |-> SubSeq(r.body, 1, IF Len(r.body) < cap THEN Len(r.body) ELSE cap),
          err |-> FALSE]

fetchScriptContent(r) ==
  IF r.doErr THEN FetchErr
  ELSE IF ReadAllLimited(r, maxContentSize).err THEN FetchErr
  ELSE IF TooLarge(Len(ReadAllLimited(r, maxContentSize).body), maxContentSize) THEN FetchErr
  ELSE [content |-> ReadAllLimited(r, maxContentSize).body, err |-> FALSE]

fetchHTMLContent(r) ==
  IF r.doErr THEN FetchErr
  ELSE IF ReadAllLimited(r, maxContentSize).err THEN FetchErr
  ELSE IF TooLarge(Len(ReadAllLimited(r, maxContentSize).body), maxContentSize) THEN FetchErr
  ELSE [content |-> ReadAllLimited(r, maxContentSize).body, err |-> FALSE]

InitFetch ==
  /\ CacheInit({1}) /\ DedupIdle /\ FindIdle /\ ResolveIdle /\ ScrapeIdle /\ ServerIdle
  /\ resp \in Responses
  /\ fetched = <<>>
  /\ hpc \in {"html", "script"}

FetchHTMLCall ==
  /\ hpc = "html"
  /\ fetched' = fetchHTMLContent(resp)
  /\ hpc' = "done"
  /\ UNCHANGED <<cacheVars, procVars, histVars, dedupVars, findVars, resp, urlVars, scrapeVars,
               serverVars>>

FetchScriptCall ==
  /\ hpc = "script"
  /\ fetched' = fetchScriptContent(resp)
  /\ hpc' = "done"
  /\ UNCHANGED <<cacheVars, procVars, histVars, dedupVars, findVars, resp, urlVars, scrapeVars,
               serverVars>>

NextFetch == FetchHTMLCall \/ FetchScriptCall

SpecFetch == InitFetch /\ [][NextFetch]_vars

\* C20: a fetch returns a body only when it is the whole body the server sent
\* and its length is strictly below the cap; when the bytes read reach the
\* cap it returns an error and no content.
C20_NoTruncation ==
  hpc = "done" =>
    /\ ~fetched.err =>
         /\ fetched.content = resp.body
         /\ Len(fetched.content) < maxContentSize
    /\ (~resp.doErr /\ resp.readErrAt = 0 /\ Len(resp.body) >= maxContentSize) =>
         fetched = FetchErr

C20_Witness ==
  /\ hpc = "done"
  /\ ~resp.doErr /\ resp.readErrAt = 0
  /\ Len(resp.body) > maxContentSize
  /\ fetched.err

(***************************************************************************)
(* net/url as resolveURL uses it, on strings without user info, query or   *)
(* percent-escapes                                                         *)
(***************************************************************************)
\* strings.Index for a single character: 0 when c is not in s
IndexOf(s, c) ==
  IF \E i \in 1..Len(s) : s[i] = c
    THEN CHOOSE i \in 1..Len(s) : s[i] = c /\ \A j \in 1..(i - 1) : s[j] # c
    ELSE 0

\* strings.LastIndex for a single character: 0 when c is not in s
LastIndexOf(s, c) ==
  IF \E i \in 1..Len(s) : s[i] = c
    THEN CHOOSE i \in 1..Len(s) : s[i] = c /\ \A j \in (i + 1)..Len(s) : s[j] # c
    ELSE 0

\* strings.Cut for a single character found at index i (0: not found)
cutAt(s, i) ==
  IF i = 0
    THEN [before |-> s, after |-> <<>>, found |-> FALSE]
    ELSE [before |-> SubSeq(s, 1, i - 1), after |-> SubSeq(s, i + 1, Len(s)), found |-> TRUE]

\* strings.Cut for a single character
Cut(s, c) == cutAt(s, IndexOf(s, c))

HasPrefix(s, pre) == Len(s) >= Len(pre) /\ SubSeq(s, 1, Len(pre)) = pre

Letters == {"a", "e", "f", "g", "h", "j", "l", "m", "o", "p", "q", "r", "s", "u"}
Digits == {"0", "1", "2", "3", "4", "5", "6", "7", "8", "9"}

\* url.getScheme: [ok, scheme, rest]
getScheme(rawURL) ==
  LET stop == {i \in 1..Len(rawURL) :
                 \/ rawURL[i] = ":"
                 \/ rawURL[i] \notin Letters \cup Digits \cup {"+", "-", "."}
                 \/ (i = 1 /\ rawURL[i] \notin Letters)}
      i == IF stop = {} THEN 0 ELSE CHOOSE x \in stop : \A y \in stop : x <= y
  IN IF i = 0 \/ rawURL[i] # ":"
       THEN [ok |-> TRUE, scheme |-> <<>>, rest |-> rawURL]
       ELSE IF i = 1
         THEN [ok |-> FALSE, scheme |-> <<>>, rest |-> <<>>]
         ELSE [ok |-> TRUE, scheme |-> SubSeq(rawURL, 1, i - 1),
               rest |-> SubSeq(rawURL, i + 1, Len(rawURL))]

\* url.validOptionalPort on the part of the authority from its last colon on
ValidOptionalPort(authority) ==
  LastIndexOf(authority, ":") = 0
    \/ \A j \in (LastIndexOf(authority, ":") + 1)..Len(authority) : authority[j] \in Digits

BadURL == [ok |-> FALSE, Scheme |-> <<>>, Opaque |-> <<>>, Host |-> <<>>,
           Path |-> <<>>, Fragment |-> <<>>, OmitHost |-> FALSE]

\* url.parse(rawURL, false) after getScheme, for the scheme and the rest it
\* returned and the authority cut from the rest
parseRest(sch, rest, auth) ==
  IF ~sch.ok THEN BadURL
  ELSE IF ~HasPrefix(rest, <<"/">>) /\ sch.scheme # <<>>
    THEN [BadURL EXCEPT !.ok = TRUE, !.Scheme = sch.scheme, !.Opaque = rest]
  ELSE IF ~HasPrefix(rest, <<"/">>) /\ IndexOf(Cut(rest, "/").before, ":") # 0
    THEN BadURL
  ELSE IF HasPrefix(rest, <<"/", "/">>) /\ ~HasPrefix(rest, <<"/", "/", "/">>)
    THEN IF ~ValidOptionalPort(auth.before) THEN BadURL
         ELSE [BadURL EXCEPT !.ok = TRUE, !.Scheme = sch.scheme, !.Host = auth.before,
                 !.Path = IF auth.found THEN <<"/">> \o auth.after ELSE <<>>]
  ELSE [BadURL EXCEPT !.ok = TRUE, !.Scheme = sch.scheme, !.Path = rest,
          !.OmitHost = (sch.scheme # <<>> /\ HasPrefix(rest, <<"/">>))]

\* the authority of a rest that starts with "//", cut from what follows it
authority(rest) == Cut(SubSeq(rest, 3, Len(rest)), "/")

parseScheme(sch) == parseRest(sch, sch.rest, authority(sch.rest))

\* url.parse(rawURL, false) on the part before the fragment
ParseNoFragment(u) == parseScheme(getScheme(u))

\* url.Parse, after strings.Cut(rawURL, "#"): setFragment on what parse gave
setFragment(parsed, cut) ==
  IF parsed.ok THEN [parsed EXCEPT !.Fragment = cut.after] ELSE BadURL

parseCut(cut) == setFragment(ParseNoFragment(cut.before), cut)

\* url.Parse
Parse(rawURL) == parseCut(Cut(rawURL, "#"))

\* (*URL).Hostname: the host without its port
Hostname(u) == Cut(u.Host, ":").before

\* (*URL).IsAbs
IsAbs(u) == u.Scheme # <<>>

\* (*URL).String
String(u) ==
  (IF u.Scheme # <<>> THEN u.Scheme \o <<":">> ELSE <<>>)
  \o (IF u.Opaque # <<>> THEN u.Opaque
      ELSE (IF (u.Scheme # <<>> \/ u.Host # <<>>)
                 /\ ~(u.OmitHost /\ u.Host = <<>>)
                 /\ (u.Host # <<>> \/ u.Path # <<>>)
              THEN <<"/", "/">> \o u.Host ELSE <<>>)
           \o (IF u.Path # <<>> /\ u.Path[1] # "/" /\ u.Host # <<>> THEN <<"/">> ELSE <<>>)
           \o (IF u.Scheme = <<>> /\ u.Host = <<>>
                   /\ IndexOf(Cut(u.Path, "/").before, ":") # 0 THEN <<".", "/">> ELSE <<>>)
           \o u.Path)
  \o (IF u.Fragment # <<>> THEN <<"#">> \o u.Fragment ELSE <<>>)

RECURSIVE DotLoop(_, _, _)
\* the loop of url.resolvePath over the elements of remaining: [dst, elem]
DotLoop(remaining, dst, first) ==
  LET cut == Cut(remaining, "/")
      elem == cut.before
      str == Tail(dst)
      index == LastIndexOf(str, "/")
      next ==
        IF elem = <<".">> THEN [dst |-> dst, first |-> FALSE]
        ELSE IF elem = <<".", ".">>
          THEN IF index = 0 THEN [dst |-> <<"/">>, first |-> TRUE]
               ELSE [dst |-> <<"/">> \o SubSeq(str, 1, index - 1), first |-> first]
          ELSE [dst |-> (IF first THEN dst ELSE Append(dst, "/")) \o elem, first |-> FALSE]
  IN IF cut.found THEN DotLoop(cut.after, next.dst, next.first)
     ELSE [dst |-> next.dst, elem |-> elem]

\* url.resolvePath(base, ref)
resolvePath(base, ref) ==
  LET full == IF ref = <<>> THEN base
              ELSE IF ref[1] # "/" THEN SubSeq(base, 1, LastIndexOf(base, "/")) \o ref
              ELSE ref
      loop == DotLoop(full, <<"/">>, TRUE)
      r == IF loop.elem \in {<<".">>, <<".", ".">>} THEN Append(loop.dst, "/") ELSE loop.dst
  IN IF full = <<>> THEN <<>>
     ELSE IF Len(r) > 1 /\ r[2] = "/" THEN Tail(r) ELSE r

\* (*URL).ResolveReference
ResolveReference(u, ref) ==
  LET scheme == IF ref.Scheme = <<>> THEN u.Scheme ELSE ref.Scheme
  IN IF ref.Scheme # <<>> \/ ref.Host # <<>>
       THEN [ref EXCEPT !.Scheme = scheme, !.Path = resolvePath(ref.Path, <<>>)]
     ELSE IF ref.Opaque # <<>>
       THEN [ref EXCEPT !.Scheme = scheme, !.Host = <<>>, !.Path = <<>>]
     ELSE IF ref.Path = <<>> /\ u.Opaque # <<>>
       THEN [ref EXCEPT !.Scheme = scheme, !.Opaque = u.Opaque, !.Host = <<>>, !.Path = <<>>,
                        !.Fragment = IF ref.Fragment = <<>> THEN u.Fragment ELSE ref.Fragment]
     ELSE [ref EXCEPT !.Scheme = scheme, !.Host = u.Host,
                      !.Path = resolvePath(u.Path, ref.Path),
                      !.Fragment = IF ref.Path = <<>> /\ ref.Fragment = <<>>
                                     THEN u.Fragment ELSE ref.Fragment]

(***************************************************************************)
(* core.resolveURL                                                         *)
(***************************************************************************)
NeedsSlashBug(refURL) == FALSE

\* !refURL.IsAbs() && refURL.Path != "" && !strings.HasPrefix(refURL.Path, "/")
NeedsSlash(refURL) ==
  ~IsAbs(refURL) /\ refURL.Path # <<>> /\ ~HasPrefix(refURL.Path, <<"/">>)

ResolveErr == [url |-> <<>>, err |-> TRUE]

\* refURL after: if ... { refURL.Path = "/" + refURL.Path }
slashed(refURL) ==
  IF NeedsSlash(refURL) THEN [refURL EXCEPT !.Path = <<"/">> \o @] ELSE refURL

\* resolveURL once both strings went through url.Parse
resolveParsed(baseURL, refURL) ==
  IF ~baseURL.ok \/ ~refURL.ok THEN ResolveErr
  ELSE [url |-> String(ResolveReference(baseURL, slashed(refURL))), err |-> FALSE]

resolveURL(base, ref) == resolveParsed(Parse(base), Parse(ref))

\* URLs are written with one-letter schemes (h for http, s for https) and
\* short host labels
SchemeHTTP == <<"h">>
SchemeHTTPS == <<"s">>
HostE == <<"e", ".", "m">>
HostA == <<"a", ".", "m">>
Origin(scheme, host) == scheme \o <<":", "/", "/">> \o host

Bases ==
  {Origin(SchemeHTTPS, HostE),
   Origin(SchemeHTTPS, HostE) \o <<"/">>,
   Origin(SchemeHTTPS, HostE) \o <<"/", "p", "/">>,
   Origin(SchemeHTTPS, HostE) \o <<"/", "p", "/", "q">>,
   Origin(SchemeHTTP, HostA) \o <<"/", "p", "/">>}

Segs == {<<"j">>, <<".">>, <<".", ".">>}
SegLists == UNION {[1..n -> Segs] : n \in 0..MaxSegs}

RECURSIVE Join(_)
\* strings.Join(segs, "/")
Join(segs) ==
  IF segs = <<>> THEN <<>>
  ELSE IF Len(segs) = 1 THEN segs[1]
  ELSE segs[1] \o <<"/">> \o Join(Tail(segs))

RelPaths == {Join(l) \o t : l \in SegLists \ {<<>>}, t \in {<<>>, <<"/">>}}
AbsPaths == {<<"/">> \o p : p \in RelPaths \cup {<<>>}}
Frags == {<<>>, <<"#", "f">>}
Prefixes ==
  {Origin(sc, h) : sc \in {SchemeHTTP, SchemeHTTPS}, h \in {HostE, HostA}}
    \cup {<<"/", "/">> \o h : h \in {HostE, HostA}}

\* script references: relative, root-relative, empty, protocol-relative,
\* absolute, and one that does not parse (a colon with no scheme before it)
Refs ==
  {p \o f : p \in RelPaths \cup AbsPaths \cup {<<>>}, f \in Frags}
    \cup {pre \o p \o f : pre \in Prefixes, p \in AbsPaths \cup {<<>>}, f \in Frags}
    \cup {<<":", "j">>}

InitURL ==
  /\ CacheInit({1}) /\ DedupIdle /\ FindIdle /\ FetchIdle /\ ScrapeIdle /\ ServerIdle
  /\ rbase \in Bases
  /\ rref \in Refs
  /\ resolved = <<>>
  /\ upc = "call"

ResolveCall ==
  /\ upc = "call"
  /\ resolved' = resolveURL(rbase, rref)
  /\ upc' = "done"
  /\ UNCHANGED <<cacheVars, procVars, histVars, dedupVars, findVars, fetchVars, rbase, rref,
               scrapeVars, serverVars>>

NextURL == ResolveCall

SpecURL == InitURL /\ [][NextURL]_vars

(***************************************************************************)
(* Claim about resolveURL                                                  *)
(***************************************************************************)
\* the path segments after the leading "/"
RECURSIVE SplitPath(_)
SplitPath(p) ==
  IF Cut(p, "/").found THEN <<Cut(p, "/").before>> \o SplitPath(Cut(p, "/").after)
  ELSE <<p>>

RECURSIVE Walk(_, _)
\* the directory stack reached by following the segments: "." stays, ".."
\* goes up (never above the root), a name goes down
Walk(segs, stack) ==
  IF segs = <<>> THEN stack
  ELSE IF Head(segs) = <<".">> THEN Walk(Tail(segs), stack)
  ELSE IF Head(segs) = <<".", ".">>
    THEN Walk(Tail(segs), IF stack = <<>> THEN stack ELSE SubSeq(stack, 1, Len(stack) - 1))
  ELSE Walk(Tail(segs), Append(stack, Head(segs)))

\* an absolute path with its dot segments removed (RFC 3986, 5.2.4)
Clean(path) ==
  LET segs == SplitPath(Tail(path))
      last == segs[Len(segs)]
      isDir == last \in {<<>>, <<".">>, <<".", ".">>}
      stack == Walk(IF last = <<>> THEN SubSeq(segs, 1, Len(segs) - 1) ELSE segs, <<>>)
  IN IF path = <<>> THEN <<>>
     ELSE <<"/">> \o Join(stack) \o (IF isDir /\ stack # <<>> THEN <<"/">> ELSE <<>>)

HasDotSegment(path) ==
  \E i \in 1..Len(SplitPath(path)) : SplitPath(path)[i] \in {<<".">>, <<".", ".">>}

FragmentOf(u) == IF u.Fragment = <<>> THEN <<>> ELSE <<"#">> \o u.Fragment

Resolved == upc = "done" /\ ~resolved.err

\* a ref with no scheme and a non-empty path not starting with "/" is
\* resolved from the site root, whatever the path of the base
SiteRootQuirk ==
  (Resolved /\ Parse(rref).Scheme = <<>> /\ Parse(rref).Path # <<>>
     /\ Parse(rref).Path[1] # "/")
    => resolved.url = Origin(Parse(rbase).Scheme, Parse(rbase).Host)
                        \o Clean(<<"/">> \o Parse(rref).Path) \o FragmentOf(Parse(rref))

\* a protocol-relative ref takes the scheme of the base and nothing else
ProtocolRelative ==
  (Resolved /\ Parse(rref).Scheme = <<>> /\ Parse(rref).Host # <<>>)
    => resolved.url = Origin(Parse(rbase).Scheme, Parse(rref).Host)
                        \o Clean(Parse(rref).Path) \o FragmentOf(Parse(rref))

\* an absolute ref is returned unchanged
AbsoluteUnchanged ==
  (Resolved /\ Parse(rref).Scheme # <<>>) => resolved.url = rref

\* an absolute ref keeps its scheme, host and fragment, its path loses its
\* dot segments, and it is returned unchanged when its path has none
AbsoluteCleaned ==
  (Resolved /\ Parse(rref).Scheme # <<>>)
    => /\ resolved.url = Origin(Parse(rref).Scheme, Parse(rref).Host)
                           \o Clean(Parse(rref).Path) \o FragmentOf(Parse(rref))
       /\ (~HasDotSegment(Parse(rref).Path) => resolved.url = rref)

C12_WitnessAbsolute ==
  /\ Resolved
  /\ rref = Origin(SchemeHTTP, HostA) \o <<"/", ".", "/", "j">>
  /\ resolved.url = Origin(SchemeHTTP, HostA) \o <<"/", "j">>

\* a protocol-relative ref came out with the scheme of the base
C12_WitnessProtocolRelative ==
  /\ Resolved
  /\ rbase = Origin(SchemeHTTPS, HostE) \o <<"/", "p", "/">>
  /\ rref = <<"/", "/">> \o HostA \o <<"/", "j">>
  /\ resolved.url = Origin(SchemeHTTPS, HostA) \o <<"/", "j">>

(***************************************************************************)
(* The scraper: hosts, pages and scripts of a small web                    *)
(***************************************************************************)
\* e.m with its subdomain c.e.m and a.m stand for sites, g.m for google.com,
\* l for localhost (l:5 for localhost:5173), r.a.p for the service's own
\* run.app host
HostSub == <<"c", ".">> \o HostE
HostG == <<"g", ".", "m">>
HostL == <<"l">>
HostLPort == <<"l", ":", "5">>
HostRun == <<"r", ".", "a", ".", "p">>

blacklistHostnames == <<HostG, HostLPort, HostRun>>

TargetE == Origin(SchemeHTTPS, HostE) \o <<"/", "p", "/">>
TargetSub == Origin(SchemeHTTPS, HostSub) \o <<"/">>
TargetG == Origin(SchemeHTTPS, HostG) \o <<"/">>
TargetL == Origin(SchemeHTTP, HostLPort) \o <<"/">>
ScrapeTargets == {TargetE, TargetSub, TargetG, TargetL}

\* two more pages of e.m: one that names the same script twice, one without
\* scripts
TargetDup == Origin(SchemeHTTPS, HostE) \o <<"/", "d", "/">>
TargetPlain == Origin(SchemeHTTPS, HostE) \o <<"/">>
PageTargets == {TargetDup, TargetPlain, TargetG}
Pages == ScrapeTargets \cup PageTargets

ScriptE == Origin(SchemeHTTPS, HostE) \o <<"/", "j">>
ScriptA == Origin(SchemeHTTPS, HostA) \o <<"/", "j">>
ScriptG == Origin(SchemeHTTPS, HostG) \o <<"/", "j">>
ScriptL == Origin(SchemeHTTPS, HostL) \o <<"/", "j">>

\* what the web serves: per URL the text in which addresses are looked for
\* and, for a page, the src attributes of its script elements in document
\* order
Web ==
  (TargetE :> [text |-> Address("a"),
               scripts |-> <<<<"j">>, <<"/", "/">> \o HostA \o <<"/", "j">>,
                             <<"/", "/">> \o HostL \o <<"/", "j">>>>])
  @@ (TargetSub :> [text |-> <<>>,
                    scripts |-> <<<<"/", "/">> \o HostE \o <<"/", "j">>,
                                  <<"/", "/">> \o HostG \o <<"/", "j">>,
                                  <<":", "j">>>>])
  @@ (TargetG :> [text |-> Address("a"), scripts |-> <<<<"j">>>>])
  @@ (TargetL :> [text |-> Address("a"), scripts |-> <<<<"j">>>>])
  @@ (TargetDup :> [text |-> <<>>, scripts |-> <<<<"/", "j">>, <<"/", "j">>>>])
  @@ (TargetPlain :> [text |-> Address("a"), scripts |-> <<>>])
  @@ (ScriptE :> [text |-> Address("a") \o Address("A"), scripts |-> <<>>])
  @@ (ScriptA :> [text |-> Address("A"), scripts |-> <<>>])
  @@ (ScriptG :> [text |-> Address("A"), scripts |-> <<>>])
  @@ (ScriptL :> [text |-> Address("A"), scripts |-> <<>>])

\* the lists of targets given to Scrape
ScrapeInputs ==
  {<<t>> : t \in ScrapeTargets} \cup {<<t, u>> : t \in ScrapeTargets, u \in ScrapeTargets}

\* lists of the pages that name a script twice or none
PageInputs ==
  {<<t>> : t \in PageTargets} \cup {<<t, u>> : t \in PageTargets, u \in PageTargets}

\* what fetchHTMLContent / fetchScriptContent can return for a URL: an error
\* (transport, read, oversized body) or the whole body
Fetches(url) ==
  {FetchErr} \cup (IF url \in DOMAIN Web THEN {[content |-> Web[url], err |-> FALSE]} ELSE {})

\* the script references html.Parse finds, in document order
extractScripts(htmlContent) == htmlContent.scripts

(***************************************************************************)
(* The scraper: functions of package core                                  *)
(***************************************************************************)
RECURSIVE Split(_, _)
\* strings.Split for a single character
Split(s, c) ==
  IF Cut(s, c).found THEN <<Cut(s, c).before>> \o Split(Cut(s, c).after, c) ELSE <<s>>

\* publicsuffix.Domain on the labels of the hostname, with every top-level
\* label a public suffix: the last two labels, or an error when the host has
\* fewer than two
domainOf(labels) ==
  IF Len(labels) < 2 \/ \E i \in 1..Len(labels) : labels[i] = <<>>
    THEN [domain |-> <<>>, err |-> TRUE]
    ELSE [domain |-> labels[Len(labels) - 1] \o <<".">> \o labels[Len(labels)],
          err |-> FALSE]

getTopLevelDomain(hostname) == domainOf(Split(hostname, "."))

contains(slice, item) == \E i \in 1..Len(slice) : slice[i] = item

\* getTLD once the target went through url.Parse, with its Hostname()
tldOfHost(targetURL, targetHostname) ==
  IF ~targetURL.ok THEN [domain |-> <<>>, err |-> TRUE]
  ELSE IF contains(blacklistHostnames, targetHostname)
    THEN [domain |-> <<>>, err |-> TRUE]
  ELSE getTopLevelDomain(targetHostname)

tldOfParsed(targetURL) == tldOfHost(targetURL, Hostname(targetURL))

getTLDBug(target) == getTopLevelDomain(Hostname(Parse(target)))

getTLD(target) == tldOfParsed(Parse(target))

SameDomainBug(scriptTLD, targetTLD) == TRUE

\* the negation of scriptTLD != targetTLD
SameDomain(scriptTLD, targetTLD) == scriptTLD = targetTLD

\* processScript from the domain lookup on (lines 300-308)
scriptOfDomain(fullURL, scriptTLD, targetTLD) ==
  IF scriptTLD.err THEN [kind |-> "error", fullURL |-> fullURL]
  ELSE IF ~SameDomain(scriptTLD.domain, targetTLD)
    THEN [kind |-> "skip", fullURL |-> fullURL]
  ELSE [kind |-> "get", fullURL |-> fullURL]

\* processScript from the blacklist check on (lines 295-308)
scriptOfHost(fullURL, scriptHostname, targetTLD) ==
  IF contains(blacklistHostnames, scriptHostname)
    THEN [kind |-> "skip", fullURL |-> fullURL]
  ELSE scriptOfDomain(fullURL, getTopLevelDomain(scriptHostname), targetTLD)

\* processScript once fullURL went through url.Parse (lines 291-308)
scriptOfParsed(fullURL, scriptURL, targetTLD) ==
  IF ~scriptURL.ok THEN [kind |-> "error", fullURL |-> <<>>]
  ELSE scriptOfHost(fullURL, Hostname(scriptURL), targetTLD)

\* processScript once resolveURL returned (lines 286-308)
scriptOfResolved(resolvedURL, targetTLD) ==
  IF resolvedURL.err THEN [kind |-> "error", fullURL |-> <<>>]
  ELSE scriptOfParsed(resolvedURL.url, Parse(resolvedURL.url), targetTLD)

\* processScript up to the call of getScriptContent: "error" (return nil,
\* err), "skip" (return nil, nil) or "get" (go on with fullURL)
processScript(target, script, targetTLD) ==
  scriptOfResolved(resolveURL(target, script), targetTLD)

CacheGetBug(c, k) == <<Nil, FALSE>>

\* FixedSizeCache.Get on a cache of the core package
CacheGet(c, k) == MapGet(c.items, k)

CacheSetBug(c, k, v) == {c}

\* FixedSizeCache.Set on a cache of the core package: the caches it can
\* leave, one per index rand.Intn can pick when a key has to go
CacheSet(c, k, v) ==
  IF Exists(c.items, k) THEN {[items |-> Store(c.items, k, v), keys |-> c.keys]}
  ELSE IF Full(Len(c.keys), MaxCached)
    THEN {[items |-> Store(MapDelete(c.items, c.keys[evictIndex]), k, v),
           keys |-> Append(RemoveAt(c.keys, evictIndex), k)] :
            evictIndex \in 1..Len(c.keys)}
  ELSE {[items |-> Store(c.items, k, v), keys |-> Append(c.keys, k)]}

GatherBug(all, scriptInfos) == scriptInfos

\* allScriptInfos = append(allScriptInfos, scriptInfos...)
Gather(all, scriptInfos) == all \o scriptInfos

CacheableBug(f) == TRUE

\* getScriptContent goes on to scriptCache.Set: fetchScriptContent returned
\* no error
Cacheable(f) == ~f.err

WaitDoneBug(counter) == TRUE

\* wg.Wait() returns: the counter of the WaitGroup is zero
WaitDone(counter) == counter = 0

DequeueBug(buf) == <<>>

\* what a receive leaves in the buffer of the channel
Dequeue(buf) == Tail(buf)

DrainedBug(ch) == ch.buf = <<>>

\* the range over the channel ends: the channel is closed and empty
Drained(ch) == ch.buf = <<>> /\ ch.closed

ContinueBug(i, n) == n + 1

\* continue: the loop of Scrape goes on with the next target
Continue(i, n) == i + 1

(***************************************************************************)
(* The scraper: Scrape, scrapeTarget, processScripts and the goroutines    *)
(* running processScript                                                   *)
(***************************************************************************)
InitScrape ==
  /\ CacheInit({1}) /\ DedupIdle /\ FindIdle /\ FetchIdle /\ ResolveIdle
  /\ ScrapeIdle /\ ServerIdle

Target == targets[tix]
AtTarget == spc = "target" /\ tix <= Len(targets)
Request(url, kind, ok) ==
  [url |-> url, kind |-> kind, target |-> Target, at |-> tix, ok |-> ok]
Outcome(how, infos) == [target |-> Target, how |-> how, infos |-> infos]
NoTasks ==
  /\ pageInfos' = <<>>
  /\ tasks' = <<>>
  /\ wg' = 0
  /\ scriptInfosChan' = OpenChan
  /\ allScriptInfos' = <<>>

\* Scrape(targets) is called with one of the lists of inputs
ScrapeCall(inputs) ==
  /\ spc \in {"idle", "returned"}
  /\ ncalls < MaxCalls
  /\ \E ts \in inputs : targets' = ts
  /\ ncalls' = ncalls + 1
  /\ spc' = "target"
  /\ tix' = 1
  /\ allAddressInfos' = <<>>
  /\ result' = <<>>
  /\ requests' = {}
  /\ outcomes' = <<>>
  /\ before' = <<targetCache, scriptCache>>
  /\ UNCHANGED <<unitVars, targetCache, scriptCache, pageInfos, tasks, wg,
                 scriptInfosChan, allScriptInfos, lastOK>>

ScrapeStart == ScrapeCall(ScrapeInputs)

ScrapePages == ScrapeCall(PageInputs)

\* scrapeTarget: the target is in targetCache
TargetHit ==
  /\ AtTarget
  /\ CacheGet(targetCache, Target)[2]
  /\ allAddressInfos' = allAddressInfos \o CacheGet(targetCache, Target)[1]
  /\ outcomes' = Append(outcomes, Outcome("hit", CacheGet(targetCache, Target)[1]))
  /\ tix' = tix + 1
  /\ UNCHANGED <<unitVars, targetCache, scriptCache, ncalls, spc, targets, result,
                 pageInfos, tasks, wg, scriptInfosChan, allScriptInfos, requests,
                 before, lastOK>>

\* scrapeTarget: fetchHTMLContent fails; Scrape logs the error and continues
TargetFetchFail ==
  /\ AtTarget
  /\ ~CacheGet(targetCache, Target)[2]
  /\ FetchErr \in Fetches(Target)
  /\ requests' = requests \cup {Request(Target, "html", FALSE)}
  /\ outcomes' = Append(outcomes, Outcome("failed", <<>>))
  /\ tix' = Continue(tix, Len(targets))
  /\ UNCHANGED <<unitVars, targetCache, scriptCache, ncalls, spc, targets,
                 allAddressInfos, result, pageInfos, tasks, wg, scriptInfosChan,
                 allScriptInfos, before, lastOK>>

\* scrapeTarget: the page is fetched, processScripts fails in getTLD; Scrape
\* logs the error and continues
TargetTLDFail ==
  /\ AtTarget
  /\ ~CacheGet(targetCache, Target)[2]
  /\ \E f \in Fetches(Target) : ~f.err
  /\ getTLD(Target).err
  /\ requests' = requests \cup {Request(Target, "html", TRUE)}
  /\ outcomes' = Append(outcomes, Outcome("failed", <<>>))
  /\ tix' = Continue(tix, Len(targets))
  /\ UNCHANGED <<unitVars, targetCache, scriptCache, ncalls, spc, targets,
                 allAddressInfos, result, pageInfos, tasks, wg, scriptInfosChan,
                 allScriptInfos, before, lastOK>>

\* scrapeTarget: the page is fetched and scanned, processScripts starts one
\* goroutine per script and the one that closes the channel
TargetSpawn ==
  /\ AtTarget
  /\ ~CacheGet(targetCache, Target)[2]
  /\ ~getTLD(Target).err
  /\ \E f \in Fetches(Target) :
       /\ ~f.err
       /\ pageInfos' = findAddressInfos(f.content.text, Target, TypeHTML, Target)
       /\ tasks' = [i \in 1..Len(extractScripts(f.content)) |->
                      [pc |-> "start", script |-> extractScripts(f.content)[i],
                       fullURL |-> <<>>, scriptInfos |-> <<>>, sent |-> FALSE,
                       fetched |-> FALSE]]
       /\ wg' = Len(extractScripts(f.content))
  /\ scriptInfosChan' = OpenChan
  /\ allScriptInfos' = <<>>
  /\ requests' = requests \cup {Request(Target, "html", TRUE)}
  /\ spc' = "range"
  /\ UNCHANGED <<unitVars, targetCache, scriptCache, ncalls, targets, tix,
                 allAddressInfos, result, outcomes, before, lastOK>>

\* the goroutine after processScript decided: on "get", scriptCache.Get and,
\* on a hit, findAddressInfos of the cached content
afterResolve(task, plan, cached, target) ==
  IF plan.kind = "error" THEN [task EXCEPT !.pc = "exit", !.fullURL = plan.fullURL]
  ELSE IF plan.kind = "skip" THEN [task EXCEPT !.pc = "send", !.fullURL = plan.fullURL]
  ELSE IF cached[2]
    THEN [task EXCEPT !.pc = "send", !.fullURL = plan.fullURL,
                      !.scriptInfos = findAddressInfos(cached[1].text, plan.fullURL,
                                                       TypeScript, target)]
  ELSE [task EXCEPT !.pc = "fetch", !.fullURL = plan.fullURL]

afterPlan(task, plan, target) ==
  afterResolve(task, plan, CacheGet(scriptCache, plan.fullURL), target)

\* processScript up to the call of getScriptContent depends on the target and
\* the script reference only: its value for script i of each page
scriptPlans ==
  [t \in Pages |->
     [i \in 1..Len(extractScripts(Web[t])) |->
        processScript(t, extractScripts(Web[t])[i], getTLD(t).domain)]]

\* goroutine i: processScript up to scriptCache.Get
TaskResolve(i) ==
  /\ spc = "range"
  /\ tasks[i].pc = "start"
  /\ tasks' = [tasks EXCEPT ![i] = afterPlan(@, scriptPlans[Target][i], Target)]
  /\ UNCHANGED <<unitVars, targetCache, scriptCache, ncalls, spc, targets, tix,
                 allAddressInfos, result, pageInfos, wg, scriptInfosChan,
                 allScriptInfos, requests, outcomes, before, lastOK>>

\* goroutine i: getScriptContent after a miss (fetchScriptContent, then
\* scriptCache.Set on success) and findAddressInfos
TaskFetch(i) ==
  /\ spc = "range"
  /\ tasks[i].pc = "fetch"
  /\ \E f \in Fetches(tasks[i].fullURL) :
       /\ requests' = requests \cup {Request(tasks[i].fullURL, "script", ~f.err)}
       /\ IF Cacheable(f)
            THEN scriptCache' \in CacheSet(scriptCache, tasks[i].fullURL, f.content)
            ELSE UNCHANGED scriptCache
       /\ IF f.err
            THEN tasks' = [tasks EXCEPT ![i].pc = "exit", ![i].fetched = TRUE]
            ELSE tasks' = [tasks EXCEPT ![i].pc = "send", ![i].fetched = TRUE,
                             ![i].scriptInfos =
                               findAddressInfos(f.content.text, tasks[i].fullURL,
                                                TypeScript, Target)]
  /\ UNCHANGED <<unitVars, targetCache, ncalls, spc, targets, tix, allAddressInfos,
                 result, pageInfos, wg, scriptInfosChan, allScriptInfos, outcomes,
                 before, lastOK>>

\* goroutine i: scriptInfosChan <- scriptInfos (the buffer has room for one
\* value per goroutine; a send on a closed channel panics)
TaskSend(i) ==
  /\ spc = "range"
  /\ tasks[i].pc = "send"
  /\ IF scriptInfosChan.closed
       THEN /\ tasks' = [tasks EXCEPT ![i].pc = "panic"]
            /\ UNCHANGED scriptInfosChan
       ELSE /\ Len(scriptInfosChan.buf) < Len(tasks)
            /\ scriptInfosChan' =
                 [scriptInfosChan EXCEPT !.buf = Append(@, tasks[i].scriptInfos)]
            /\ tasks' = [tasks EXCEPT ![i].pc = "exit", ![i].sent = TRUE]
  /\ UNCHANGED <<unitVars, targetCache, scriptCache, ncalls, spc, targets, tix,
                 allAddressInfos, result, pageInfos, wg, allScriptInfos, requests,
                 outcomes, before, lastOK>>

\* goroutine i: the deferred wg.Done()
TaskDone(i) ==
  /\ spc = "range"
  /\ tasks[i].pc = "exit"
  /\ wg' = wg - 1
  /\ tasks' = [tasks EXCEPT ![i].pc = "gone"]
  /\ UNCHANGED <<unitVars, targetCache, scriptCache, ncalls, spc, targets, tix,
                 allAddressInfos, result, pageInfos, scriptInfosChan, allScriptInfos,
                 requests, outcomes, before, lastOK>>

\* the closing goroutine: wg.Wait() returns, close(scriptInfosChan)
CloseChan ==
  /\ spc = "range"
  /\ WaitDone(wg)
  /\ ~scriptInfosChan.closed
  /\ scriptInfosChan' = [scriptInfosChan EXCEPT !.closed = TRUE]
  /\ UNCHANGED <<unitVars, targetCache, scriptCache, ncalls, spc, targets, tix,
                 allAddressInfos, result, pageInfos, tasks, wg, allScriptInfos,
                 requests, outcomes, before, lastOK>>

\* processScripts: one iteration of the range over scriptInfosChan
Receive ==
  /\ spc = "range"
  /\ scriptInfosChan.buf # <<>>
  /\ allScriptInfos' = Gather(allScriptInfos, Head(scriptInfosChan.buf))
  /\ scriptInfosChan' = [scriptInfosChan EXCEPT !.buf = Dequeue(@)]
  /\ UNCHANGED <<unitVars, targetCache, scriptCache, ncalls, spc, targets, tix,
                 allAddressInfos, result, pageInfos, tasks, wg, requests, outcomes,
                 before, lastOK>>

\* processScripts returns (the channel is closed and drained); scrapeTarget
\* appends, stores the list in targetCache and returns it; Scrape appends it
TargetStored ==
  /\ spc = "range"
  /\ Drained(scriptInfosChan)
  /\ targetCache' \in CacheSet(targetCache, Target, pageInfos \o allScriptInfos)
  /\ allAddressInfos' = allAddressInfos \o (pageInfos \o allScriptInfos)
  /\ outcomes' = Append(outcomes, Outcome("stored", pageInfos \o allScriptInfos))
  /\ lastOK' = MapPut(lastOK, Target, pageInfos \o allScriptInfos)
  /\ tix' = tix + 1
  /\ spc' = "target"
  /\ before' = <<targetCache', scriptCache>>
  /\ NoTasks
  /\ UNCHANGED <<unitVars, scriptCache, ncalls, targets, result, requests>>

\* Scrape returns uniqueAddressInfos(allAddressInfos), nil
ScrapeReturn ==
  /\ spc = "target"
  /\ tix > Len(targets)
  /\ \E order \in MapOrders(SeenOf(allAddressInfos)) :
       result' = [infos |-> uniqueAddressInfos(allAddressInfos, order), err |-> FALSE]
  /\ spc' = "returned"
  /\ UNCHANGED <<unitVars, targetCache, scriptCache, ncalls, targets, tix,
                 allAddressInfos, pageInfos, tasks, wg, scriptInfosChan,
                 allScriptInfos, requests, outcomes, before, lastOK>>

NextScrape ==
  \/ ScrapeStart
  \/ TargetHit
  \/ TargetFetchFail
  \/ TargetTLDFail
  \/ TargetSpawn
  \/ \E i \in DOMAIN tasks : TaskResolve(i)
  \/ \E i \in DOMAIN tasks : TaskFetch(i)
  \/ \E i \in DOMAIN tasks : TaskSend(i)
  \/ \E i \in DOMAIN tasks : TaskDone(i)
  \/ CloseChan
  \/ Receive
  \/ TargetStored
  \/ ScrapeReturn

SpecScrape == InitScrape /\ [][NextScrape]_vars

\* a step of one of the goroutines of processScripts
TaskStep ==
  \/ \E i \in DOMAIN tasks : TaskResolve(i)
  \/ \E i \in DOMAIN tasks : TaskFetch(i)
  \/ \E i \in DOMAIN tasks : TaskSend(i)
  \/ \E i \in DOMAIN tasks : TaskDone(i)

\* Scrape on pages that name a script twice or name none
NextPages ==
  \/ ScrapePages
  \/ TargetHit
  \/ TargetFetchFail
  \/ TargetTLDFail
  \/ TargetSpawn
  \/ TaskStep
  \/ CloseChan
  \/ Receive
  \/ TargetStored
  \/ ScrapeReturn

SpecPages == InitScrape /\ [][NextPages]_vars

\* the Go scheduler lets every goroutine that can run take its next step:
\* the script goroutines (every fetch ends within the 3 s timeout of its
\* client), the closing goroutine and the loop of processScripts
SpecPagesFair ==
  /\ InitScrape
  /\ [][NextPages]_vars
  /\ WF_vars(TaskStep)
  /\ WF_vars(CloseChan)
  /\ WF_vars(Receive)
  /\ WF_vars(TargetStored)

(***************************************************************************)
(* Claims about the scraper                                                *)
(***************************************************************************)
\* the registrable domain of the host of a URL
RegDomain(url) == getTopLevelDomain(Hostname(Parse(url)))

SameSite(url, other) ==
  /\ ~RegDomain(url).err
  /\ ~RegDomain(other).err
  /\ RegDomain(url).domain = RegDomain(other).domain

\* the page of processing i of this call could not be fetched
PageFetchFailed(i) ==
  \E r \in requests : r.at = i /\ r.kind = "html" /\ ~r.ok

\* the host of the target is on the blacklist or has no registrable domain
TargetRefused(t) ==
  \/ contains(blacklistHostnames, Hostname(Parse(t)))
  \/ contains(blacklistHostnames, Parse(t).Host)
  \/ RegDomain(t).err

\* C13: during any Scrape a script URL is fetched over HTTP, and its content
\* scanned, only if the registrable domain of the resolved script host equals
\* that of the target host; a mismatch or a failed domain lookup for the
\* script skips that script and does not fail the target.
C13_SameDomainOnly ==
  /\ \A r \in requests : r.kind = "script" => SameSite(r.url, r.target)
  /\ \A j \in 1..Len(allAddressInfos) :
       allAddressInfos[j].Type = TypeScript
         => SameSite(allAddressInfos[j].Src, allAddressInfos[j].Targets[1])
  /\ \A i \in DOMAIN tasks :
       (tasks[i].pc # "start" /\ tasks[i].fullURL # <<>>
          /\ ~SameSite(tasks[i].fullURL, Target))
         => tasks[i].pc # "fetch" /\ tasks[i].scriptInfos = <<>>
  /\ \A i \in DOMAIN outcomes :
       outcomes[i].how = "failed" => PageFetchFailed(i) \/ TargetRefused(outcomes[i].target)

\* TargetE was scraped: its same-site script was fetched, the script of
\* another site and the one of a host without a domain were not, and the
\* target did not fail
C13_Witness ==
  /\ spc = "returned"
  /\ \E i \in DOMAIN outcomes :
       /\ outcomes[i].target = TargetE
       /\ outcomes[i].how = "stored"
       /\ \E r \in requests : r.at = i /\ r.kind = "script" /\ r.url = ScriptE
       /\ \A r \in requests : r.at = i /\ r.kind = "script" => r.url = ScriptE

\* C14: a blacklisted hostname is never scraped: no HTTP request is issued
\* to a URL whose hostname is in the static blacklist, be it a target or a
\* script of a target.
C14_NoBlacklistedRequest ==
  \A r \in requests : ~contains(blacklistHostnames, Hostname(Parse(r.url)))

\* the part of C14 about scripts: no request for a script goes to a
\* blacklisted hostname
C14_ScriptsOnly ==
  \A r \in requests :
    r.kind = "script" => ~contains(blacklistHostnames, Hostname(Parse(r.url)))

\* processing i of this call ended in an error of scrapeTarget
Failed(i) == outcomes[i].how = "failed"

\* the step in which scrapeTarget returns an error for the current target
FailStep ==
  /\ Len(outcomes') = Len(outcomes) + 1
  /\ outcomes'[Len(outcomes')].how = "failed"

\* targets whose page cannot be fetched or whose host is refused do fail
MustFail ==
  \A i \in DOMAIN outcomes :
    (PageFetchFailed(i) \/ TargetRefused(outcomes[i].target)) => Failed(i)

\* a target that failed each time this call processed it is in no entry of
\* the result
NoFindingsOfFailed ==
  spc = "returned" =>
    \A i \in DOMAIN outcomes :
      (\A k \in DOMAIN outcomes : outcomes[k].target = outcomes[i].target => Failed(k))
        => \A j \in 1..Len(result.infos) :
             outcomes[i].target \notin Range(result.infos[j].Targets)

\* C15: a target that fails (page fetch failure, a host matching an entry of
\* the static blacklist, or a failed registrable-domain lookup of the target
\* host) contributes no findings to the result, not even the addresses of its
\* HTML, and is not stored in the per-target cache; both caches are left as
\* they were before that target was processed.
C15_FailedTarget ==
  /\ [](MustFail /\ NoFindingsOfFailed)
  /\ [][FailStep =>
          /\ allAddressInfos' = allAddressInfos
          /\ <<targetCache', scriptCache'>> = before
          /\ ~Exists(targetCache'.items, Target)]_vars

\* the page of the blacklisted target was fetched and holds an address, the
\* target failed, and the result of the call has nothing of it
C15_Witness ==
  /\ spc = "returned"
  /\ targets = <<TargetE, TargetG>>
  /\ outcomes[1].how = "stored"
  /\ Failed(2)
  /\ \E r \in requests : r.at = 2 /\ r.kind = "html" /\ r.ok
  /\ result.infos # <<>>
  /\ targetCache.keys = <<TargetE>>

\* the loop of Scrape is at a target that targetCache holds
AtCachedTarget == AtTarget /\ Exists(targetCache.items, Target)

\* every entry of targetCache is the list that the last scrapeTarget which
\* fetched that target returned
CacheHoldsLastOK ==
  \A t \in DOMAIN targetCache.items :
    Exists(lastOK, t) /\ targetCache.items[t] = lastOK[t]

\* C16: when the target is in the per-target cache, scrapeTarget returns the
\* cached list, issues no HTTP fetch for the page or its scripts and writes
\* to neither cache; after a successful scrape of T a later Scrape containing
\* T gets for T the same findings as long as T has not been evicted.
C16_CacheHit ==
  /\ []CacheHoldsLastOK
  /\ [][AtCachedTarget =>
          /\ outcomes' = Append(outcomes, Outcome("hit", lastOK[Target]))
          /\ allAddressInfos' = allAddressInfos \o lastOK[Target]
          /\ requests' = requests
          /\ targetCache' = targetCache
          /\ scriptCache' = scriptCache
          /\ spc' = "target"
          /\ tix' = tix + 1]_vars

\* the second call of Scrape found TargetE in the cache: it returned the
\* findings of the first call without any request
C16_Witness ==
  /\ spc = "returned"
  /\ ncalls = 2
  /\ targets = <<TargetE>>
  /\ Exists(lastOK, TargetE)
  /\ outcomes = <<[target |-> TargetE, how |-> "hit", infos |-> lastOK[TargetE]]>>
  /\ requests = {}
  /\ Len(result.infos) > 1

\* what processScript decides for script k of the page of target t
PlanOf(t, k) == processScript(t, extractScripts(Web[t])[k], RegDomain(t).domain)

\* the request for that script URL in processing i failed
ScriptFetchFailed(i, url) ==
  \E r \in requests : r.at = i /\ r.kind = "script" /\ r.url = url /\ ~r.ok

\* the scripts of the page of processing i that were processed successfully
\* and were not skipped
Processed(i) ==
  {k \in 1..Len(extractScripts(Web[outcomes[i].target])) :
     /\ PlanOf(outcomes[i].target, k).kind = "get"
     /\ ~ScriptFetchFailed(i, PlanOf(outcomes[i].target, k).fullURL)}

\* the findings in script k of the page of target t
FindingsOf(t, k) ==
  findAddressInfos(Web[PlanOf(t, k).fullURL].text, PlanOf(t, k).fullURL, TypeScript, t)

RECURSIVE FindingsInOrder(_, _)
FindingsInOrder(t, order) ==
  IF order = <<>> THEN <<>>
  ELSE FindingsOf(t, Head(order)) \o FindingsInOrder(t, Tail(order))

HTMLFindings(t) == findAddressInfos(Web[t].text, t, TypeHTML, t)

\* C17: no script's failure (unresolvable URL, domain-lookup failure, fetch
\* failure, oversized body) fails its target: once the page was fetched and
\* the target's domain resolved, the target succeeds, and its result is the
\* HTML findings plus the findings of every script that was processed
\* successfully, whatever subset of the other scripts failed.
C17_ScriptFailuresIndependent ==
  \A i \in DOMAIN outcomes :
    /\ (~PageFetchFailed(i) /\ ~TargetRefused(outcomes[i].target)) => ~Failed(i)
    /\ outcomes[i].how = "stored" =>
         \E order \in Orders(Processed(i)) :
           outcomes[i].infos
             = HTMLFindings(outcomes[i].target)
                 \o FindingsInOrder(outcomes[i].target, order)

\* TargetE lost its only same-site script to a fetch failure and was stored
\* with its HTML findings; TargetSub, one of whose scripts does not resolve,
\* was stored with the findings of the script that could be fetched
C17_Witness ==
  /\ spc = "returned"
  /\ targets = <<TargetE, TargetSub>>
  /\ outcomes[1].how = "stored"
  /\ ScriptFetchFailed(1, ScriptE)
  /\ outcomes[1].infos = HTMLFindings(TargetE)
  /\ outcomes[2].how = "stored"
  /\ Len(outcomes[2].infos) = 2

\* the (triple, target) pairs of a list of findings
Pairs(infos) ==
  UNION {{<<TripleOf(infos[j]), t>> : t \in Range(infos[j].Targets)} : j \in 1..Len(infos)}

\* the (triple, target) pairs that the targets which did not fail returned
PairsOfSucceeded ==
  UNION {Pairs(outcomes[i].infos) : i \in {k \in DOMAIN outcomes : ~Failed(k)}}

\* C18: a failing target never aborts the batch: for every list of targets
\* and every pattern of per-target failures Scrape processes every target of
\* the list, returns a nil error, and returns the findings of all targets
\* that did not fail (an empty result when all fail).
C18_BatchNotAborted ==
  spc = "returned" =>
    /\ Len(outcomes) = Len(targets)
    /\ \A i \in DOMAIN outcomes : outcomes[i].target = targets[i]
    /\ ~result.err
    /\ Pairs(result.infos) = PairsOfSucceeded
    /\ (\A i \in DOMAIN outcomes : Failed(i)) => result.infos = <<>>

\* the first target failed, the second was scraped and its findings returned
C18_Witness ==
  /\ spc = "returned"
  /\ targets = <<TargetL, TargetE>>
  /\ Failed(1)
  /\ outcomes[2].how = "stored"
  /\ ~result.err
  /\ Len(result.infos) = 3

\* both targets failed and the call returned an empty list and no error
C18_WitnessAllFail ==
  /\ spc = "returned"
  /\ targets = <<TargetE, TargetSub>>
  /\ Failed(1)
  /\ Failed(2)
  /\ result = [infos |-> <<>>, err |-> FALSE]

\* the targets from which a triple was reached in this call
Originating(triple) ==
  {outcomes[i].target :
     i \in {k \in DOMAIN outcomes :
              ~Failed(k) /\ WithTriple(outcomes[k].infos, triple) # {}}}

\* C19: the list returned by Scrape never holds two entries with the same
\* (address, src, type): when the same address in the same source document
\* is reached from several targets of one call, or from the same target
\* listed several times, it appears once, with targets holding each
\* originating target exactly once.
C19_ResultUnique ==
  spc = "returned" =>
    /\ \A i, j \in 1..Len(result.infos) :
         TripleOf(result.infos[i]) = TripleOf(result.infos[j]) => i = j
    /\ \A j \in 1..Len(result.infos) :
         /\ Cardinality(Range(result.infos[j].Targets)) = Len(result.infos[j].Targets)
         /\ Range(result.infos[j].Targets) = Originating(TripleOf(result.infos[j]))

\* an address of the script shared by two targets came back as one entry
\* naming both
C19_Witness ==
  /\ spc = "returned"
  /\ targets = <<TargetE, TargetSub>>
  /\ \E j \in 1..Len(result.infos) :
       /\ result.infos[j].Src = ScriptE
       /\ result.infos[j].Targets = <<TargetE, TargetSub>>
  /\ Len(result.infos) < Len(allAddressInfos)

\* a target listed twice is named once in each entry
C19_WitnessRepeated ==
  /\ spc = "returned"
  /\ targets = <<TargetE, TargetE>>
  /\ Len(allAddressInfos) = 6
  /\ Len(result.infos) = 3
  /\ \A j \in 1..Len(result.infos) : result.infos[j].Targets = <<TargetE>>

\* the goroutines that have sent their findings on the channel
SentTasks == {i \in DOMAIN tasks : tasks[i].sent}

RECURSIVE InfosInOrder(_)
\* the findings of the goroutines of a list, concatenated
InfosInOrder(order) ==
  IF order = <<>> THEN <<>>
  ELSE tasks[Head(order)].scriptInfos \o InfosInOrder(Tail(order))

RECURSIVE Flatten(_)
\* the values waiting in the buffer of the channel, concatenated
Flatten(buf) == IF buf = <<>> THEN <<>> ELSE Head(buf) \o Flatten(Tail(buf))

\* processScript of goroutine i returned an error
TaskErred(i) ==
  \/ PlanOf(Target, i).kind = "error"
  \/ \E r \in requests :
       r.at = tix /\ r.kind = "script" /\ r.url = tasks[i].fullURL /\ ~r.ok

\* what a successful processScript of goroutine i returns: nil for a script
\* that is skipped, else the findings in the script
TaskFindings(i) ==
  IF PlanOf(Target, i).kind = "skip" THEN <<>> ELSE FindingsOf(Target, i)

\* one goroutine per script reference of the page; what was received and
\* what waits in the channel is what the goroutines sent, each once; a
\* goroutine that ended without sending had an error
FanIn ==
  spc = "range" =>
    /\ Len(tasks) = Len(extractScripts(Web[Target]))
    /\ \A i \in DOMAIN tasks : tasks[i].script = extractScripts(Web[Target])[i]
    /\ wg = Cardinality({i \in DOMAIN tasks : tasks[i].pc # "gone"})
    /\ \E order \in Orders(SentTasks) :
         allScriptInfos \o Flatten(scriptInfosChan.buf) = InfosInOrder(order)
    /\ \A i \in DOMAIN tasks :
         /\ tasks[i].sent
              => PlanOf(Target, i).kind # "error" /\ tasks[i].scriptInfos = TaskFindings(i)
         /\ (tasks[i].pc \in {"exit", "gone"} /\ ~tasks[i].sent) => TaskErred(i)

\* the step in which processScripts returns
ScriptsReturn == spc = "range" /\ spc' = "target"

\* C21: fan-in completeness: processScripts starts one task per discovered
\* script reference and returns only after every one of those tasks has
\* finished; under every interleaving the merged list holds the findings of
\* each successfully processed script exactly once (none lost, none
\* duplicated by the fan-in).
C21_FanInComplete ==
  /\ []FanIn
  /\ [][ScriptsReturn =>
          /\ \A i \in DOMAIN tasks : tasks[i].pc = "gone"
          /\ \E order \in Orders(SentTasks) :
               /\ allScriptInfos = InfosInOrder(order)
               /\ outcomes'[Len(outcomes')].infos = pageInfos \o InfosInOrder(order)]_vars

\* the three goroutines of TargetE have finished: one sent the findings of
\* the script, one sent nil for a skipped script, one had an error; the
\* channel is closed and drained and the merged list holds the two findings
C21_Witness ==
  /\ spc = "range"
  /\ Target = TargetE
  /\ Drained(scriptInfosChan)
  /\ \A i \in DOMAIN tasks : tasks[i].pc = "gone"
  /\ Cardinality(SentTasks) = 2
  /\ \E i \in DOMAIN tasks : ~tasks[i].sent
  /\ Len(allScriptInfos) = 2

\* Scrape is inside its loop over the targets
InLoop == spc \in {"target", "range"}

\* the targets before the current one have reached their terminal state, in
\* list order, and goroutines exist only while the current target is in
\* processScripts
TargetsInOrder ==
  /\ InLoop =>
       /\ Len(outcomes) = tix - 1
       /\ \A i \in DOMAIN outcomes : outcomes[i].target = targets[i]
       /\ \A r \in requests : r.at <= tix /\ r.at <= Len(targets) /\ r.target = targets[r.at]
  /\ spc # "range" => tasks = <<>>

\* the step in which the loop of Scrape leaves the current target
NextTargetStep == InLoop /\ tix' # tix

\* C22: within one Scrape call targets are processed strictly one after
\* another in list order: no fetch or cache access for target k+1 happens
\* before every script task of target k has finished and target k has
\* reached its terminal state (cached or failed).
C22_TargetsSequential ==
  /\ []TargetsInOrder
  /\ [][(InLoop /\ requests' # requests) =>
          \A r \in requests' \ requests :
            r.at = tix /\ r.target = Target /\ Len(outcomes) = tix - 1]_vars
  /\ [][(InLoop /\ (targetCache' # targetCache \/ scriptCache' # scriptCache)) =>
          /\ Len(outcomes) = tix - 1
          /\ targetCache' # targetCache => \A i \in DOMAIN tasks : tasks[i].pc = "gone"]_vars
  /\ [][NextTargetStep =>
          /\ tix' = tix + 1
          /\ \A i \in DOMAIN tasks : tasks[i].pc = "gone"
          /\ Len(outcomes') = tix
          /\ outcomes'[tix].target = Target
          /\ outcomes'[tix].how = "failed" \/ Exists(targetCache'.items, Target)]_vars

\* the second target of the list is in processScripts and one of its
\* scripts has been requested; the first target was stored before, after
\* its own script requests
C22_Witness ==
  /\ spc = "range"
  /\ tix = 2
  /\ targets = <<TargetE, TargetSub>>
  /\ outcomes[1].how = "stored"
  /\ \E r \in requests : r.at = 1 /\ r.kind = "script"
  /\ \E r \in requests : r.at = 2 /\ r.kind = "script"

\* every entry of scriptCache is keyed by the resolved URL of a script that
\* processScript goes on to get, and holds the whole body the web serves
\* there
ScriptCacheHoldsBodies ==
  \A u \in DOMAIN scriptCache.items :
    /\ u \in DOMAIN Web
    /\ scriptCache.items[u] = Web[u]
    /\ \E t \in Pages : \E k \in 1..Len(extractScripts(Web[t])) :
         PlanOf(t, k) = [kind |-> "get", fullURL |-> u]

\* a step in which a request for a script is recorded as failed
ScriptFailStep == \E r \in requests' \ requests : r.kind = "script" /\ ~r.ok

\* a step in which a request for the script at url is recorded as successful
ScriptOKStep(url) ==
  \E r \in requests' \ requests : r.kind = "script" /\ r.ok /\ r.url = url

\* C23: script content is cached only on success: at every moment each entry
\* of the script cache maps a resolved script URL to the complete body
\* returned by a successful fetch of that URL; a failed or oversized fetch
\* never adds or changes a script-cache entry.
C23_ScriptCachedOnSuccess ==
  /\ []ScriptCacheHoldsBodies
  /\ [][ScriptFailStep => scriptCache' = scriptCache]_vars
  /\ [][scriptCache' # scriptCache =>
          \E u \in DOMAIN scriptCache'.items :
            /\ ScriptOKStep(u)
            /\ \A w \in DOMAIN scriptCache'.items \ {u} :
                 Exists(scriptCache.items, w) /\ scriptCache'.items[w] = scriptCache.items[w]]_vars

\* both goroutines of TargetDup missed scriptCache for the same script: one
\* fetched it and stored the body, the request of the other failed and the
\* entry is as it was
C23_Witness ==
  /\ spc = "range"
  /\ Target = TargetDup
  /\ Exists(scriptCache.items, ScriptE)
  /\ scriptCache.items[ScriptE] = Web[ScriptE]
  /\ \E r \in requests : r.at = tix /\ r.kind = "script" /\ r.url = ScriptE /\ r.ok
  /\ \E r \in requests : r.at = tix /\ r.kind = "script" /\ r.url = ScriptE /\ ~r.ok
  /\ \A i \in DOMAIN tasks : tasks[i].fetched

\* the targets of the input entries with the triple of entry j
TargetsOfTriple(j) ==
  UNION {Range(addressInfos[i].Targets) : i \in WithTriple(addressInfos, TripleOf(addressInfos[j]))}

\* C24: dedup groups by the triple (address, src, type) and by nothing
\* coarser: two input entries whose triples differ in any component are
\* never merged into one output entry, for arbitrary string values of the
\* three fields.
C24_NoCoarserMerge ==
  dpc = "done" =>
    \A j \in 1..Len(addressInfos) :
      \E k \in 1..Len(unique) :
        /\ TripleOf(unique[k]) = TripleOf(addressInfos[j])
        /\ Range(unique[k].Targets) = TargetsOfTriple(j)

\* a goroutine at its send finds room in the buffer of the open channel, the
\* channel is closed only when every goroutine has ended, and no goroutine
\* has panicked in a send on the closed channel
SendsNeverBlock ==
  /\ \A i \in DOMAIN tasks :
       /\ tasks[i].pc # "panic"
       /\ tasks[i].pc = "send" =>
            ~scriptInfosChan.closed /\ Len(scriptInfosChan.buf) < Len(tasks)
  /\ scriptInfosChan.closed => \A i \in DOMAIN tasks : tasks[i].pc = "gone"
  /\ Len(scriptInfosChan.buf) <= Len(tasks)

\* the step of close(scriptInfosChan)
CloseStep == ~scriptInfosChan.closed /\ scriptInfosChan'.closed

\* C25: processScripts always terminates, for any number of scripts
\* (including zero) and any combination of per-script outcomes: no script
\* task blocks forever on sending its result, the result channel is closed
\* exactly once and only after all tasks have finished, and no task ever
\* sends on the closed channel.
C25_ScriptsTerminate ==
  /\ []SendsNeverBlock
  /\ [][CloseStep => wg = 0 /\ \A i \in DOMAIN tasks : tasks[i].pc = "gone"]_vars
  /\ [][(spc = "range" /\ scriptInfosChan.closed) => scriptInfosChan'.closed \/ spc' = "target"]_vars
  /\ [][ScriptsReturn => scriptInfosChan.closed]_vars
  /\ (spc = "range") ~> (spc = "target")

\* processScripts returned for the page without scripts
C25_Witness ==
  /\ spc = "target"
  /\ \E i \in DOMAIN outcomes :
       outcomes[i].target = TargetPlain /\ outcomes[i].how = "stored"

\* processScripts returned for the page with two scripts, one of which could
\* not be fetched
C25_WitnessFailure ==
  /\ spc = "target"
  /\ \E i \in DOMAIN outcomes :
       /\ outcomes[i].target = TargetDup
       /\ outcomes[i].how = "stored"
       /\ ScriptFetchFailed(i, ScriptE)
       /\ outcomes[i].infos # <<>>

\* the goroutines of the current target that issued an HTTP request for url
Fetchers(url) == {i \in DOMAIN tasks : tasks[i].fetched /\ tasks[i].fullURL = url}

\* C26: within the processing of a single target, each distinct resolved
\* script URL is fetched over HTTP at most once, even when the page
\* references that URL several times and the references are processed
\* concurrently.
C26_FetchedOnce ==
  \A i \in DOMAIN tasks : tasks[i].fetched => Cardinality(Fetchers(tasks[i].fullURL)) = 1

\* the same-domain scripts of the page of target t: the resolved URLs that
\* processScript goes on to get
SameDomainScripts(t) ==
  {PlanOf(t, k).fullURL :
     k \in {j \in 1..Len(extractScripts(Web[t])) : PlanOf(t, j).kind = "get"}}

\* a list of findings with nothing from the script at url
Without(infos, url) == \A j \in 1..Len(infos) : infos[j].Src # url

\* targetCache holds for target t a result that lacks a same-domain script
\* which has findings
PartialCached(t) ==
  /\ Exists(targetCache.items, t)
  /\ \E u \in SameDomainScripts(t) :
       /\ findAddressInfos(Web[u].text, u, TypeScript, t) # <<>>
       /\ Without(targetCache.items[t], u)

\* every request of the current target for the script at url failed
ScriptLost(url) ==
  /\ ScriptFetchFailed(tix, url)
  /\ \A r \in requests : (r.at = tix /\ r.url = url) => ~r.ok

\* C27: when a same-domain script of target T fails to fetch, T's partial
\* result (without that script's findings) is still stored in the per-target
\* cache; every later Scrape of T, while T stays cached, returns that partial
\* result and never re-attempts the failed script.
C27_PartialResultCached ==
  /\ [][(ScriptsReturn /\ \E u \in SameDomainScripts(Target) : ScriptLost(u))
          => /\ Exists(targetCache'.items, Target)
             /\ targetCache'.items[Target] = pageInfos \o allScriptInfos
             /\ \A u \in SameDomainScripts(Target) :
                  ScriptLost(u) => Without(targetCache'.items[Target], u)]_vars
  /\ [][(AtTarget /\ PartialCached(Target))
          => /\ outcomes' = Append(outcomes, Outcome("hit", targetCache.items[Target]))
             /\ allAddressInfos' = allAddressInfos \o targetCache.items[Target]
             /\ requests' = requests
             /\ tasks' = <<>>
             /\ targetCache' = targetCache]_vars

\* the script of TargetE could not be fetched in the first call, which stored
\* the findings of the page alone; the second call returned them from the
\* cache without a request
C27_Witness ==
  /\ spc = "returned"
  /\ ncalls = 2
  /\ targets = <<TargetE>>
  /\ PartialCached(TargetE)
  /\ targetCache.items[TargetE] = HTMLFindings(TargetE)
  /\ outcomes = <<[target |-> TargetE, how |-> "hit", infos |-> HTMLFindings(TargetE)]>>
  /\ requests = {}
  /\ result.infos = HTMLFindings(TargetE)

(***************************************************************************)
(* RunServer: the handler of POST /scrape and the goroutine it starts      *)
(***************************************************************************)
\* a target with a scheme the handler refuses
TargetFTP == <<"f", ":", "/", "/">> \o HostE \o <<"/">>

\* the targets arrays of the request bodies that bind
RequestBodies == {<<>>, <<TargetE>>, <<TargetL, TargetE>>, <<TargetE, TargetFTP>>}

\* in production: the checks of the Authorization header, the ID token and
\* the rate limiter, with the status they answer; outside production none
AuthOutcomes == {"pass", "401", "429"}

\* strings.HasPrefix(target, "http://") || strings.HasPrefix(target, "https://")
HasHTTPPrefix(target) ==
  \/ HasPrefix(target, SchemeHTTP \o <<":", "/", "/">>)
  \/ HasPrefix(target, SchemeHTTPS \o <<":", "/", "/">>)

\* the checks of the body: it binds, it names a target, every target starts
\* with http:// or https://
ValidBody(bound, body) ==
  /\ bound
  /\ Len(body) # 0
  /\ \A j \in 1..Len(body) : HasHTTPPrefix(body[j])

\* what core.Scrape can hand back to the goroutine: a list and a nil error
ScrapeResults == {[infos |-> <<>>, err |-> FALSE],
                  [infos |-> HTMLFindings(TargetE), err |-> FALSE]}

\* the handler of request r up to the select: it answers 401, 429 or 400 and
\* returns, or makes the two unbuffered channels and starts the goroutine
HandlerBegin(r) ==
  /\ handlers[r].pc = "idle"
  /\ \E auth \in AuthOutcomes, bound \in BOOLEAN, body \in RequestBodies :
       handlers' = [handlers EXCEPT ![r] =
         IF auth # "pass"
           THEN [@ EXCEPT !.pc = "returned", !.status = auth]
         ELSE IF ~ValidBody(bound, body)
           THEN [@ EXCEPT !.pc = "returned", !.status = "400"]
         ELSE [@ EXCEPT !.pc = "select", !.targets = body, !.worker = "scrape"]]
  /\ UNCHANGED <<cacheVars, procVars, histVars, dedupVars, findVars, fetchVars, urlVars,
                 scrapeVars>>

\* the goroutine of request r: core.Scrape(request.Targets) returns
WorkerScrape(r) ==
  /\ handlers[r].worker = "scrape"
  /\ \E res \in ScrapeResults :
       handlers' = [handlers EXCEPT ![r].worker = "send", ![r].results = res]
  /\ UNCHANGED <<cacheVars, procVars, histVars, dedupVars, findVars, fetchVars, urlVars,
                 scrapeVars>>

\* the goroutine of request r sends on errChan or resultsChan and the select
\* of the handler receives: the channels have no buffer, so the send and the
\* receive are one step
Deliver(r) ==
  /\ handlers[r].worker = "send"
  /\ handlers[r].pc = "select"
  /\ handlers' = [handlers EXCEPT ![r].worker = "done", ![r].pc = "returned",
                    ![r].status = IF handlers[r].results.err THEN "500" ELSE "200"]
  /\ UNCHANGED <<cacheVars, procVars, histVars, dedupVars, findVars, fetchVars, urlVars,
                 scrapeVars>>

\* the select of the handler of request r takes <-ctx.Done(): the 30 seconds
\* are over or the client has gone; the handler answers 408 and returns
HandlerTimeout(r) ==
  /\ handlers[r].pc = "select"
  /\ handlers' = [handlers EXCEPT ![r].pc = "returned", ![r].status = "408"]
  /\ UNCHANGED <<cacheVars, procVars, histVars, dedupVars, findVars, fetchVars, urlVars,
                 scrapeVars>>

NextServer ==
  \/ \E r \in 1..NumReqs : HandlerBegin(r)
  \/ \E r \in 1..NumReqs : WorkerScrape(r)
  \/ \E r \in 1..NumReqs : Deliver(r)
  \/ \E r \in 1..NumReqs : HandlerTimeout(r)

InitServer ==
  /\ CacheInit({1}) /\ DedupIdle /\ FindIdle /\ MoreIdle

SpecServer == InitServer /\ [][NextServer]_vars

\* C28: in the /scrape HTTP handler the goroutine that runs core.Scrape
\* always terminates once Scrape has returned: its send of the results (or
\* of the error) is always received, including in executions where the
\* 30-second timeout fired first and the handler already answered with the
\* timeout response.  As a state predicate: a goroutine at its send has a
\* handler that is still at the select, the only receiver of its channels.
C28_SendReceived ==
  \A r \in 1..NumReqs : handlers[r].worker = "send" => handlers[r].pc = "select"

\* C29: Set completes normally (no run-time panic) for every cache capacity
\* N >= 0 given to NewFixedSizeCache, including N = 0, where a Set of a new
\* key must keep the stored-entry count at most 0 or evict without failing.
C29_SetNeverPanics == \A p \in Procs : pc[p] # "panicked"

\* C29 for the capacities from 1 on
C29_PositiveCapacity == maxCacheSize >= 1 => C29_SetNeverPanics

\* no goroutine is inside the critical section of Set
NoWriter == ~mutex.writer

\* the keys slice has no duplicates and holds exactly the keys of the map
KeysMatchItems ==
  /\ \A i, j \in 1..Len(keys) : keys[i] = keys[j] => i = j
  /\ Range(keys) = DOMAIN items
  /\ Len(keys) = Cardinality(DOMAIN items)

\* C30: in every reachable state of a FixedSizeCache the keys slice contains
\* no duplicates and holds exactly the keys of the items map (so len(keys) ==
\* len(items)), after any sequence of Set calls with any eviction choices.
\* The states of a FixedSizeCache are those between the calls of Set: inside
\* a call, under the write lock, the slice and the map change one after the
\* other.
C30_KeysMatchItems == NoWriter => KeysMatchItems

\* the cache is full after an eviction, no Set is running, and the evicted
\* key is in neither the slice nor the map
C30_Witness ==
  /\ NoWriter
  /\ evicted # {}
  /\ Len(keys) = maxCacheSize
  /\ maxCacheSize > 1
  /\ \A k \in evicted : k \notin Range(keys) /\ k \notin DOMAIN items
====
